---- MODULE Spec2Model ----
(***************************************************************************)
(* A model of pacifica-reads: the cursor pager and its retrying page       *)
(* fetcher (PacificaFetcher), its RateLimiter, and the fill/trade/position *)
(* aggregation of TradeGrouper.                                            *)
(*                                                                         *)
(* Conventions                                                             *)
(*  - A text (an Error message, a response body, a cursor) is the sequence *)
(*    of its characters; String.includes(part) is a search for a           *)
(*    substring.  An absent text (undefined / a missing JSON field) is     *)
(*    NoText, which is no sequence of characters.                          *)
(*  - Durations are milliseconds.                                          *)
(*  - A Number is an IEEE 754 double, its arithmetic rounded to nearest,   *)
(*    ties to even.  A decimal string (an amount, a price, a fee, a pnl)   *)
(*    is a numeral: its sign and its digits before and after the point.    *)
(*  - An array, a Map or an object is a cell of the heap, and a variable   *)
(*    or a field that holds one holds its address.  The definitions named  *)
(*    after the arrays of the code (fills, trades, sorted, positions, ...) *)
(*    are their contents as values.                                        *)
(*  - Date.now() is the variable clock.  A step of the model ends where    *)
(*    the code awaits: a sleep is begun in one step and ends in another,   *)
(*    which moves the clock to the time its timer fires: the time it was   *)
(*    due, some ms after it, or 1 ms before it, since a timer runs on the  *)
(*    clock of the event loop and not on Date.now(); a request is sent in  *)
(*    one step, answered in another, and its body read in a third.         *)
(***************************************************************************)
EXTENDS Integers, Sequences, FiniteSets, TLC

VARIABLES
    \* ---- PacificaFetcher.fetchAllPages / fetchWithRetry ----
    fpc,               \* position of the fetchAllPages run
    cursor,            \* fetchAllPages: let cursor
    allData,           \* fetchAllPages: let allData
    pageCount,         \* fetchAllPages: let pageCount
    reqCursor,         \* the cursor parameter of the URL of the current page request
    attempt,           \* fetchWithRetry: the attempt parameter of the running call
    response,          \* the envelope fetchWithRetry returned to fetchAllPages
    returned,          \* the value fetchAllPages resolved with
    error,             \* the message of the Error fetchAllPages rejected with
    rateLimiterCalls,  \* completed rateLimiter.waitIfNeeded() calls
    pageLog,           \* the server's record of the HTTP attempts of the current page
    served,            \* the server's record of the success envelopes it delivered
    \* ---- TradeGrouper.groupByPosition ----
    gpc,               \* position of the groupByPosition run
    tradesAt,          \* groupByPosition: the trades argument
    sortedAt,          \* groupByPosition: const sorted
    cur,               \* index in sorted of the next trade of the for loop
    positionsBySymbolAt, \* groupByPosition: const positionsBySymbol
    positionsAt,       \* groupByPosition: const positions
    emissions,         \* each positions.push, with the accumulator size at that moment
    \* ---- TradeGrouper.groupByOrder ----
    opc,               \* position of the groupByOrder run
    fillsAt,           \* groupByOrder: the fills argument
    orderTradesAt,     \* groupByOrder: the returned trades
    \* ---- RateLimiter and the clock ----
    clock,             \* Date.now()
    tpc,               \* position of the limiter's caller and of its waitIfNeeded call
    now,               \* waitIfNeeded: const now
    requestTimestamps, \* RateLimiter.requestTimestamps
    delayBetweenRequests, \* RateLimiter.delayBetweenRequests
    wakeAt,            \* the time the pending setTimeout of sleep is due
    callCount,         \* waitIfNeeded calls begun
    sent,              \* the times at which an HTTP request was sent
    world,             \* the server and the timers of the run
    \* ---- groupByOrder then groupByPosition, run again on the same fills ----
    runs,              \* completed runs of the two stages on one TradeGrouper
    firstRun,          \* what the first run returned
    \* ---- the objects of the program ----
    heap               \* the arrays, Maps and objects, each at its address

fetchVars == <<fpc, cursor, allData, pageCount, reqCursor, attempt, response,
               returned, error, rateLimiterCalls, pageLog, served>>
positionVars == <<gpc, tradesAt, sortedAt, cur, positionsBySymbolAt,
                  positionsAt, emissions>>
orderVars == <<opc, fillsAt, orderTradesAt>>
limiterVars == <<clock, tpc, now, requestTimestamps, delayBetweenRequests, world,
                 wakeAt, callCount, sent>>
pipelineVars == <<runs, firstRun, heap>>
vars == <<fetchVars, positionVars, orderVars, limiterVars, pipelineVars>>

\* Nothing returned yet
NoRun == [trades |-> <<>>, positions |-> <<>>]

\* ------------------------------------------------------------------------
\* Bounds of the model
\* ------------------------------------------------------------------------
MaxPages == 3
MaxTrades == 3
MaxFills == 3
MaxCalls == 3
MaxRequests == 4
MaxRuns == 2

\* ------------------------------------------------------------------------
\* Generic helpers
\* ------------------------------------------------------------------------
RECURSIVE Pow2(_)
Pow2(n) == IF n = 0 THEN 1 ELSE 2 * Pow2(n - 1)

Abs(x) == IF x < 0 THEN -x ELSE x

RECURSIVE Flatten(_)
Flatten(ss) == IF ss = <<>> THEN <<>> ELSE Head(ss) \o Flatten(Tail(ss))

SeqsUpTo(S, n) == UNION {[1..k -> S] : k \in 0..n}

Last(s) == s[Len(s)]

\* ------------------------------------------------------------------------
\* Texts
\* ------------------------------------------------------------------------
\* String.prototype.includes: `part` occurs somewhere in `text`
Includes(text, part) ==
    \E i \in 0..(Len(text) - Len(part)) :
        SubSeq(text, i + 1, i + Len(part)) = part

\* String.prototype.startsWith: the text begins with `part`
StartsWith(text, part) ==
    Len(part) <= Len(text) /\ SubSeq(text, 1, Len(part)) = part

\* error.message.includes('fetch')
IncludesFetch(msg) == Includes(msg, <<"f", "e", "t", "c", "h">>)

\* The decimal digits of a natural number, as a template literal writes it
RECURSIVE Decimal(_)
Decimal(n) ==
    LET DigitChar(d) == <<"0", "1", "2", "3", "4", "5", "6", "7", "8", "9">>[d + 1]
    IN  IF n < 10 THEN <<DigitChar(n)>>
        ELSE Decimal(n \div 10) \o <<DigitChar(n % 10)>>

\* An absent text (undefined): no sequence of characters
NoText == <<"undefined">>

\* JavaScript truthiness of an optional text: undefined and '' are falsy
Truthy(t) == t # NoText /\ t # <<>>

\* ------------------------------------------------------------------------
\* The clock and the timers
\* ------------------------------------------------------------------------
\* How long after the time it is due a setTimeout may fire, as Date.now()
\* shows it (ms): on time, late, or 1 ms early.  The timer counts from the
\* time the event loop last took, which Date.now() may be ahead of by part
\* of a ms
Jitter == {-1, 0, 4}

\* How long an answer of the server, or the body of one, may be under way
Latency == {0, 30}

\* The environment of a run: how long an answer or a body is under way, how
\* late a timer fires, and how many requests the server's script answers
Environment(latency, late, requests) ==
    [latency |-> latency, late |-> late, requests |-> requests]

\* (variant: sleep resolves at once)
sleepNone(t, ms) == t

\* sleep(ms), begun at time t: the time the timer is due
sleep(t, ms) == t + ms

\* ------------------------------------------------------------------------
\* RateLimiter: its fields and the expressions of waitIfNeeded
\* ------------------------------------------------------------------------
maxRequestsPerMinute == 120
OneMinute == 60000
DefaultDelayMs == 500

\* requestTimestamps.filter((timestamp) => timestamp > oneMinuteAgo)
Recent(ts, t) == SelectSeq(ts, LAMBDA x : x > t - OneMinute)

\* (variant: the ceiling is reached one request later)
AtCeilingStrict(ts) == Len(ts) > maxRequestsPerMinute

\* if (this.requestTimestamps.length >= this.maxRequestsPerMinute)
AtCeiling(ts) == Len(ts) >= maxRequestsPerMinute

\* const waitTime = oldestRequest + 60000 - now
WaitTime(ts, t) == ts[1] + OneMinute - t

\* (variant: the timestamp of the call is not recorded)
PushTimestampNone(ts, t) == ts

\* this.requestTimestamps.push(Date.now())
PushTimestamp(ts, t) == Append(ts, t)

\* ------------------------------------------------------------------------
\* PacificaFetcher: the mocked server
\* ------------------------------------------------------------------------
MAX_RETRIES == 3

\* The HTTP statuses the server answers with
Statuses == {200, 404, 429, 500, 503}

\* ${response.status}
StatusText(s) == Decimal(s)

\* The body texts of a non-success answer: "not found" and "prefetch error"
Bodies ==
    {<<"n", "o", "t", " ", "f", "o", "u", "n", "d">>,
     <<"p", "r", "e", "f", "e", "t", "c", "h", " ", "e", "r", "r", "o",
       "r">>}

\* The body texts of a 200 answer that are not JSON: "<html>", "NaN",
\* " \n<fetch>" and "<html><body>fetch</body>"
NotJson ==
    {<<"<", "h", "t", "m", "l", ">">>,
     <<"N", "a", "N">>,
     <<" ", "\n", "<", "f", "e", "t", "c", "h", ">">>,
     <<"<", "h", "t", "m", "l", ">", "<", "b", "o", "d", "y", ">", "f", "e",
       "t", "c", "h", "<", "/", "b", "o", "d", "y", ">">>}

\* next_cursor of an envelope: absent, empty, or a continuation token, which
\* is any text: "c1", "c2", "undefined"
Cursors ==
    {NoText, <<>>, <<"c", "1">>, <<"c", "2">>,
     <<"u", "n", "d", "e", "f", "i", "n", "e", "d">>}

\* data of an envelope
PageData == {<<>>, <<"r1">>, <<"r2", "r3">>}

\* The error text of an envelope: "Invalid"
InvalidText == <<"I", "n", "v", "a", "l", "i", "d">>

\* PacificaResponse<T>: the envelopes a 200 answer carries
Envelopes ==
    [success : {TRUE}, data : PageData, next_cursor : Cursors, error : {NoText}]
    \cup [success : {FALSE}, data : {<<>>}, next_cursor : {NoText},
          error : {NoText, <<>>, InvalidText}]
    \cup [success : {FALSE}, data : {<<"r1">>}, next_cursor : {<<"c", "1">>},
          error : {NoText}]

NoEnvelope == [success |-> FALSE, data |-> <<>>, next_cursor |-> NoText,
               error |-> NoText]

\* The server's script has an answer after the one under way
ServerGoesOn == Len(sent) < world.requests

\* ------------------------------------------------------------------------
\* PacificaFetcher.fetchWithRetry
\* ------------------------------------------------------------------------
\* Response.ok
ResponseOk(status) == status >= 200 /\ status <= 299

\* The messages of the Errors raised
\* 'Rate limit exceeded after max retries'
RateLimitError ==
    <<"R", "a", "t", "e", " ", "l", "i", "m", "i", "t", " ", "e", "x",
      "c", "e", "e", "d", "e", "d", " ", "a", "f", "t", "e", "r", " ",
      "m", "a", "x", " ", "r", "e", "t", "r", "i", "e", "s">>

\* (variant: the 5xx branch raises the 429 branch's message)
ServerErrorAsRateLimit(status) == RateLimitError

\* `Server error ${response.status} after max retries`
ServerError(status) ==
    <<"S", "e", "r", "v", "e", "r", " ", "e", "r", "r", "o", "r", " ">>
        \o StatusText(status)
        \o <<" ", "a", "f", "t", "e", "r", " ", "m", "a", "x", " ", "r", "e",
              "t", "r", "i", "e", "s">>

\* `HTTP ${response.status}: ${errorText}`
HttpError(status, body) ==
    <<"H", "T", "T", "P", " ">> \o StatusText(status) \o <<":", " ">> \o body

\* The message of the TypeError a rejected fetch() carries: 'fetch failed'
NetworkError ==
    <<"f", "e", "t", "c", "h", " ", "f", "a", "i", "l", "e", "d">>

\* JSON.parse skips the white space before a value
JsonSpace == {" ", "\t", "\n", "\r"}

RECURSIVE LeadingSpace(_)
LeadingSpace(body) ==
    IF body = <<>> \/ body[1] \notin JsonSpace THEN 0
    ELSE 1 + LeadingSpace(Tail(body))

\* The texts JSON.parse names without a token: 'undefined', 'NaN',
\* 'Infinity' and '[object Object]'
SpecialJson ==
    {<<"u", "n", "d", "e", "f", "i", "n", "e", "d">>,
     <<"N", "a", "N">>,
     <<"I", "n", "f", "i", "n", "i", "t", "y">>,
     <<"[", "o", "b", "j", "e", "c", "t", " ", "O", "b", "j", "e", "c", "t",
       "]">>}

\* ' is not valid JSON'
NotValidJson ==
    <<" ", "i", "s", " ", "n", "o", "t", " ", "v", "a", "l", "i", "d", " ",
      "J", "S", "O", "N">>

\* What the message quotes of a body whose character pos + 1 is the
\* unexpected one: a body of at most 20 characters in full, of a longer one
\* the 10 characters before the unexpected one and the 10 from it on, with
\* ... where the body goes on
QuotedJson(body, pos) ==
    IF Len(body) <= 20 THEN <<"\"">> \o body \o <<"\"">>
    ELSE IF pos < 10
    THEN <<"\"">> \o SubSeq(body, 1, pos + 10) \o <<"\"", ".", ".", ".">>
    ELSE IF pos < Len(body) - 10
    THEN <<".", ".", ".", "\"">> \o SubSeq(body, pos - 9, pos + 10)
             \o <<"\"", ".", ".", ".">>
    ELSE <<".", ".", ".", "\"">> \o SubSeq(body, pos - 9, Len(body))
             \o <<"\"">>

\* The message for the unexpected character pos + 1 of the body:
\* `Unexpected token '<', "<html>" is not valid JSON`, and of a long body
\* `Unexpected token '<', "<html><bod"... is not valid JSON`
UnexpectedToken(body, pos) ==
    IF pos = Len(body)
    THEN <<"U", "n", "e", "x", "p", "e", "c", "t", "e", "d", " ", "e", "n",
           "d", " ", "o", "f", " ", "J", "S", "O", "N", " ", "i", "n", "p",
           "u", "t">>
    ELSE <<"U", "n", "e", "x", "p", "e", "c", "t", "e", "d", " ", "t", "o",
           "k", "e", "n", " ", "'">> \o <<body[pos + 1]>>
             \o <<"'", ",", " ">> \o QuotedJson(body, pos) \o NotValidJson

\* The message of the SyntaxError response.json() rejects with on Node.js 20
\* for a body that is empty or whose first character after the white space
\* begins no JSON value: it names that character, or the whole of one of
\* the special texts, `"undefined" is not valid JSON`
JsonError(body) ==
    IF body \in SpecialJson THEN <<"\"">> \o body \o <<"\"">> \o NotValidJson
    ELSE UnexpectedToken(body, LeadingSpace(body))

\* 'Unknown error'
UnknownError ==
    <<"U", "n", "k", "n", "o", "w", "n", " ", "e", "r", "r", "o", "r">>

\* 'API Error: '
ApiErrorPrefix ==
    <<"A", "P", "I", " ", "E", "r", "r", "o", "r", ":", " ">>

\* `API Error: ${response.error || 'Unknown error'}`
ApiError(err) ==
    ApiErrorPrefix \o (IF Truthy(err) THEN err ELSE UnknownError)

\* (variant: the 429 backoff grows linearly)
RateLimitWaitLinear(att) == 1000 * att

\* Math.pow(2, attempt) * 1000
RateLimitWait(att) == Pow2(att) * 1000

\* (variant: a retry follows at once)
LinearWaitNone(att) == 0

\* 1000 * attempt (a 5xx answer, and the catch block)
LinearWait(att) == 1000 * att

\* (variant: the ceiling is compared with <=)
MayRetryInclusive(att) == att <= MAX_RETRIES

\* if (attempt < MAX_RETRIES) return this.fetchWithRetry(url, attempt + 1)
MayRetry(att) == att < MAX_RETRIES

\* (variant: the catch block retries one time fewer)
CatchRetriesOnce(att, msg) == att < MAX_RETRIES - 1 /\ IncludesFetch(msg)

\* the condition of the catch block
CatchRetries(att, msg) == att < MAX_RETRIES /\ IncludesFetch(msg)

\* One record of the server's log: an attempt, its answer, and the sleeps the
\* fetcher began after it.  The class of an answer whose body is still under
\* way is "head".
LogEntry(class, status, body, waits) ==
    [class |-> class, status |-> status, body |-> body, env |-> NoEnvelope,
     attempt |-> attempt, waits |-> waits]

\* (variant: a retry begins with waitIfNeeded as a page does)
RetryThroughLimiter(t) ==
    /\ attempt' = attempt + 1
    /\ sent' = sent
    /\ fpc' = "loop"
    /\ UNCHANGED <<error, returned, wakeAt>>

\* return this.fetchWithRetry(url, attempt + 1): the call made at time t
\* sends the next request
Retry(t) ==
    /\ attempt' = attempt + 1
    /\ sent' = Append(sent, t)
    /\ fpc' = "fetch"
    /\ UNCHANGED <<error, returned, wakeAt>>

\* What the caller of fetchAllPages holds: nothing yet, the resolved array,
\* or a rejection, which carries no data
Pending == [state |-> "pending", value |-> <<>>]
Resolved(all) == [state |-> "resolved", value |-> all]
\* (variant: a rejection hands over what was accumulated)
RejectedWithData(all) == [state |-> "rejected", value |-> all]
Rejected(all) == [state |-> "rejected", value |-> <<>>]

\* The call rejects; fetchAllPages does not catch, so it rejects too
Raise(msg) ==
    /\ fpc' = "error"
    /\ error' = msg
    /\ returned' = Rejected(allData)
    /\ UNCHANGED <<attempt, sent, wakeAt>>

\* catch (error), entered at time t with the Error thrown in the try block,
\* `log` the server's log with the attempt under way: either the sleep
\* before the retry is begun, or the error is thrown again.  The server's
\* script has an answer for the retry.
Catch(log, t, msg) ==
    IF CatchRetries(attempt, msg)
    THEN /\ ServerGoesOn
         /\ pageLog' = [log EXCEPT ![Len(log)].waits = Append(@, LinearWait(attempt))]
         /\ wakeAt' = sleep(t, LinearWait(attempt))
         /\ fpc' = "backoff"
         /\ UNCHANGED <<attempt, error, returned, sent>>
    ELSE /\ pageLog' = log
         /\ Raise(msg)

\* What a step of fetchWithRetry leaves alone
FetchFrame == UNCHANGED <<cursor, allData, pageCount, reqCursor,
                          rateLimiterCalls, tpc, now, requestTimestamps,
                          delayBetweenRequests, world, callCount,
                          positionVars, orderVars, pipelineVars>>

\* await fetch(url) resolves, response.status === 429: the sleep of
\* 2^attempt seconds is begun
Attempt429 ==
    /\ fpc = "fetch"
    /\ MayRetry(attempt) => ServerGoesOn
    /\ \E lat \in world.latency : clock' = clock + lat
    /\ pageLog' = Append(pageLog,
           LogEntry("429", 429, <<>>, <<RateLimitWait(attempt)>>))
    /\ wakeAt' = sleep(clock', RateLimitWait(attempt))
    /\ fpc' = "sleep"
    /\ UNCHANGED <<attempt, error, returned, sent, response, served>>
    /\ FetchFrame

\* await fetch(url) resolves, response.status >= 500: the sleep of attempt
\* seconds is begun
Attempt5xx ==
    /\ fpc = "fetch"
    /\ MayRetry(attempt) => ServerGoesOn
    /\ \E lat \in world.latency : clock' = clock + lat
    /\ \E status \in {s \in Statuses : s >= 500} :
          pageLog' = Append(pageLog,
              LogEntry("5xx", status, <<>>, <<LinearWait(attempt)>>))
    /\ wakeAt' = sleep(clock', LinearWait(attempt))
    /\ fpc' = "sleep"
    /\ UNCHANGED <<attempt, error, returned, sent, response, served>>
    /\ FetchFrame

\* The Error thrown after the sleep of the 429 or 5xx branch
Exhaustion(entry) ==
    IF entry.class = "429" THEN RateLimitError ELSE ServerError(entry.status)

\* await this.sleep(...) of the 429 or 5xx branch resolves: the call ends by
\* the recursive call, or throws inside the try block
SleepElapsed ==
    /\ fpc = "sleep"
    /\ \E late \in world.late : clock' = wakeAt + late
    /\ IF MayRetry(attempt)
       THEN pageLog' = pageLog /\ Retry(clock')
       ELSE Catch(pageLog, clock', Exhaustion(Last(pageLog)))
    /\ UNCHANGED <<response, served>>
    /\ FetchFrame

\* await fetch(url) resolves, !response.ok and the status neither 429 nor
\* 5xx: response.text() is called and awaited
AttemptNotOk ==
    /\ fpc = "fetch"
    /\ \E lat \in world.latency : clock' = clock + lat
    /\ \E status \in {s \in Statuses : s # 429 /\ s < 500 /\ ~ResponseOk(s)} :
          pageLog' = Append(pageLog, LogEntry("head", status, <<>>, <<>>))
    /\ fpc' = "text"
    /\ UNCHANGED <<attempt, error, returned, sent, wakeAt, response, served>>
    /\ FetchFrame

\* await response.text() resolves: the Error is thrown inside the try block
TextRead ==
    /\ fpc = "text"
    /\ \E lat \in world.latency : clock' = clock + lat
    /\ \E body \in Bodies :
          Catch([pageLog EXCEPT ![Len(pageLog)].class = "status",
                                ![Len(pageLog)].body = body],
                clock', HttpError(Last(pageLog).status, body))
    /\ UNCHANGED <<response, served>>
    /\ FetchFrame

\* await fetch(url) rejects: a network-level failure
AttemptNetworkFailure ==
    /\ fpc = "fetch"
    /\ \E lat \in world.latency : clock' = clock + lat
    /\ Catch(Append(pageLog, LogEntry("network", 0, <<>>, <<>>)),
             clock', NetworkError)
    /\ UNCHANGED <<response, served>>
    /\ FetchFrame

\* await this.sleep(1000 * attempt) of the catch block resolves
BackoffElapsed ==
    /\ fpc = "backoff"
    /\ \E late \in world.late : clock' = wakeAt + late
    /\ pageLog' = pageLog
    /\ Retry(clock')
    /\ UNCHANGED <<response, served>>
    /\ FetchFrame

\* await fetch(url) resolves, response.ok: response.json() is called and
\* awaited
AttemptOk ==
    /\ fpc = "fetch"
    /\ \E lat \in world.latency : clock' = clock + lat
    /\ \E status \in {s \in Statuses : ResponseOk(s)} :
          pageLog' = Append(pageLog, LogEntry("head", status, <<>>, <<>>))
    /\ fpc' = "json"
    /\ UNCHANGED <<attempt, error, returned, sent, wakeAt, response, served>>
    /\ FetchFrame

\* await response.json() resolves: the envelope is returned to
\* fetchAllPages.  The server hands out a cursor that is followed only
\* below MaxPages pages and while its script goes on.
JsonRead ==
    /\ fpc = "json"
    /\ \E lat \in world.latency : clock' = clock + lat
    /\ \E env \in Envelopes :
          /\ (env.success /\ Truthy(env.next_cursor))
                => (pageCount + 1 < MaxPages /\ ServerGoesOn)
          /\ pageLog' = [pageLog EXCEPT ![Len(pageLog)].class = "ok",
                                        ![Len(pageLog)].env = env]
          /\ response' = env
          /\ served' = IF env.success THEN Append(served, env) ELSE served
    /\ fpc' = "page"
    /\ UNCHANGED <<attempt, error, returned, sent, wakeAt>>
    /\ FetchFrame

\* await response.json() rejects, the body is not JSON: the SyntaxError is
\* thrown inside the try block
JsonRejects ==
    /\ fpc = "json"
    /\ \E lat \in world.latency : clock' = clock + lat
    /\ \E body \in NotJson :
          Catch([pageLog EXCEPT ![Len(pageLog)].class = "json",
                                ![Len(pageLog)].body = body],
                clock', JsonError(body))
    /\ UNCHANGED <<response, served>>
    /\ FetchFrame

\* ------------------------------------------------------------------------
\* PacificaFetcher.fetchAllPages
\* ------------------------------------------------------------------------
\* await this.rateLimiter.waitIfNeeded(), from the call to its first await:
\* the window is filtered, then sleep(waitTime) or
\* sleep(delayBetweenRequests) is begun
LoopTop ==
    /\ fpc = "loop"
    /\ callCount' = callCount + 1
    /\ now' = clock
    /\ requestTimestamps' = Recent(requestTimestamps, clock)
    /\ IF AtCeiling(requestTimestamps')
          /\ WaitTime(requestTimestamps', clock) > 0
       THEN /\ fpc' = "window"
            /\ wakeAt' = sleep(clock, WaitTime(requestTimestamps', clock))
       ELSE /\ fpc' = "delay"
            /\ wakeAt' = sleep(clock, delayBetweenRequests)
    /\ UNCHANGED <<cursor, allData, pageCount, reqCursor, attempt, response,
                   returned, error, rateLimiterCalls, pageLog, served, clock,
                   tpc, delayBetweenRequests, world, sent, positionVars,
                   orderVars, pipelineVars>>

\* (variant: only the first page passes through the limiter)
waitIfNeededOnce(calls) == IF calls = 0 THEN 1 ELSE calls
\* RateLimiter.waitIfNeeded, as fetchAllPages sees it: the call completes
\* and has pushed one timestamp
waitIfNeeded(calls) == calls + 1

\* (variant: no request carries a cursor)
CursorParamNone(c) == NoText

\* if (cursor) queryParams.cursor = cursor
CursorParam(c) == IF Truthy(c) THEN c ELSE NoText

\* A timer of waitIfNeeded fires.  After sleep(waitTime) the fixed delay is
\* begun.  After sleep(delayBetweenRequests) the timestamp is pushed, the
\* call returns, the URL is built and fetchWithRetry(url) is called with
\* attempt = 1, which sends the request.
PageRequest ==
    /\ fpc \in {"window", "delay"}
    /\ \E late \in world.late : clock' = wakeAt + late
    /\ IF fpc = "window"
       THEN /\ fpc' = "delay"
            /\ wakeAt' = sleep(clock', delayBetweenRequests)
            /\ UNCHANGED <<requestTimestamps, rateLimiterCalls, reqCursor,
                           attempt, pageLog, sent>>
       ELSE /\ requestTimestamps' = PushTimestamp(requestTimestamps, clock')
            /\ rateLimiterCalls' = waitIfNeeded(rateLimiterCalls)
            /\ reqCursor' = CursorParam(cursor)
            /\ attempt' = 1
            /\ pageLog' = <<>>
            /\ sent' = Append(sent, clock')
            /\ fpc' = "fetch"
            /\ wakeAt' = wakeAt
    /\ UNCHANGED <<cursor, allData, pageCount, response, returned, error,
                   served, tpc, now, delayBetweenRequests, world, callCount,
                   positionVars, orderVars, pipelineVars>>

\* (variant: the loop ends after every page)
LoopAgainNever(c) == FALSE

\* while (cursor && cursor !== '')
LoopAgain(c) == Truthy(c) /\ c # <<>>

\* (variant: the success flag is not looked at)
EnvelopeFailedNever(env) == FALSE

\* if (!response.success)
EnvelopeFailed(env) == ~env.success

\* (variant: the page replaces what was accumulated)
PushDataReplace(all, data) == data

\* allData.push(...response.data)
PushData(all, data) == all \o data

\* The rest of the do-while body, once fetchWithRetry has returned
ProcessPage ==
    /\ fpc = "page"
    /\ IF EnvelopeFailed(response)
       THEN /\ fpc' = "error"
            /\ error' = ApiError(response.error)
            /\ returned' = Rejected(allData)
            /\ UNCHANGED <<allData, pageCount, cursor>>
       ELSE /\ allData' = PushData(allData, response.data)
            /\ pageCount' = pageCount + 1
            /\ cursor' = response.next_cursor
            /\ IF LoopAgain(response.next_cursor)
               THEN fpc' = "loop" /\ returned' = returned
               ELSE fpc' = "done" /\ returned' = Resolved(allData')
            /\ error' = error
    /\ UNCHANGED <<reqCursor, attempt, response, rateLimiterCalls, pageLog,
                   served, positionVars, orderVars, limiterVars,
                   pipelineVars>>

NextFetch ==
    \/ LoopTop
    \/ PageRequest
    \/ Attempt429
    \/ Attempt5xx
    \/ SleepElapsed
    \/ AttemptNotOk
    \/ TextRead
    \/ AttemptNetworkFailure
    \/ BackoffElapsed
    \/ AttemptOk
    \/ JsonRead
    \/ JsonRejects
    \/ ProcessPage

\* ------------------------------------------------------------------------
\* JavaScript collections
\* ------------------------------------------------------------------------
\* (variant: of the elements of equal key the later ones come first)
RankAscTiesReversed(k, i) ==
    Cardinality({j \in 1..Len(k) : k[j] < k[i]})
    + Cardinality({j \in (i + 1)..Len(k) : k[j] = k[i]}) + 1

\* Array.prototype.sort is stable. With comparator (a, b) => key(a) - key(b)
\* the element at index i of s, whose key is k[i], lands behind the elements
\* of smaller key and behind the earlier elements of equal key.
RankAsc(k, i) ==
    Cardinality({j \in 1..Len(k) : k[j] < k[i]})
    + Cardinality({j \in 1..(i - 1) : k[j] = k[i]}) + 1

\* s.sort((a, b) => key(a) - key(b))
SortAsc(s, k) ==
    [r \in 1..Len(s) |-> s[CHOOSE i \in 1..Len(s) : RankAsc(k, i) = r]]

\* With comparator (a, b) => key(b) - key(a)
RankDesc(k, i) ==
    Cardinality({j \in 1..Len(k) : k[j] > k[i]})
    + Cardinality({j \in 1..(i - 1) : k[j] = k[i]}) + 1

\* (variant: the array is left in the order it has)
SortDescNone(s, k) == s

\* s.sort((a, b) => key(b) - key(a))
SortDesc(s, k) ==
    [r \in 1..Len(s) |-> s[CHOOSE i \in 1..Len(s) : RankDesc(k, i) = r]]

\* A Map is the sequence of its entries in insertion order
MapHas(m, k) == \E i \in 1..Len(m) : m[i].key = k
MapIndex(m, k) == CHOOSE i \in 1..Len(m) : m[i].key = k
MapGet(m, k) == m[MapIndex(m, k)].value
MapSet(m, k, v) ==
    IF MapHas(m, k)
    THEN [m EXCEPT ![MapIndex(m, k)] = [key |-> k, value |-> v]]
    ELSE Append(m, [key |-> k, value |-> v])

\* (variant: the map is cleared)
MapDeleteAll(m, k) == <<>>

\* m.delete(k)
MapDelete(m, k) ==
    IF MapHas(m, k)
    THEN SubSeq(m, 1, MapIndex(m, k) - 1) \o SubSeq(m, MapIndex(m, k) + 1, Len(m))
    ELSE m

\* ------------------------------------------------------------------------
\* Objects
\* ------------------------------------------------------------------------
\* heap[a] is the array, Map or object at the address a: an array is the
\* sequence of its elements, a Map the sequence of its entries in insertion
\* order, an object the record of its fields.  An element, a Map value or a
\* field that is an array or an object is its address.  A literal, a `new`,
\* a spread and a map() add a cell at the end; no cell is ever removed.

\* (variant: no copy is made, the array handed in is the one sorted)
SpreadSame(h, a) == [heap |-> h, at |-> a]

\* [...a]: a new array of the elements of a; `at` is its address
Spread(h, a) == [heap |-> Append(h, h[a]), at |-> Len(h) + 1]

\* The array, the objects of the array and the Map at an address, as values:
\* every address replaced by what is there; at address 0 there is nothing
ObjectsOf(h, a) ==
    IF a = 0 THEN <<>> ELSE [i \in 1..Len(h[a]) |-> h[h[a][i]]]

TradeOf(h, t) ==
    IF "fills" \in DOMAIN h[t]
    THEN [h[t] EXCEPT !.fills = ObjectsOf(h, @)]
    ELSE h[t]

TradesOf(h, a) ==
    IF a = 0 THEN <<>> ELSE [i \in 1..Len(h[a]) |-> TradeOf(h, h[a][i])]

PositionOf(h, p) == [h[p] EXCEPT !.trades = TradesOf(h, @)]

PositionsOf(h, a) ==
    IF a = 0 THEN <<>> ELSE [i \in 1..Len(h[a]) |-> PositionOf(h, h[a][i])]

AccumulatorOf(h, x) ==
    [h[x] EXCEPT !.entryTrades = TradesOf(h, @),
                 !.exitTrades = TradesOf(h, @)]

AccumulatorsOf(h, m) ==
    IF m = 0 THEN <<>>
    ELSE [i \in 1..Len(h[m]) |->
             [key |-> h[m][i].key, value |-> AccumulatorOf(h, h[m][i].value)]]

\* The objects a caller hands over in an array of its own: the objects at
\* the addresses 1 to n, their array at n + 1
Given(objects) == Append(objects, [i \in 1..Len(objects) |-> i])

\* ------------------------------------------------------------------------
\* Numbers
\* ------------------------------------------------------------------------
\* A natural number of any size is the sequence of its digits to the base
\* 2^15, the lowest first and the highest not 0; 0 is the empty sequence.
Base == 2^15

Rest(a) == IF a = <<>> THEN <<>> ELSE Tail(a)
Limb(a, i) == IF i <= Len(a) THEN a[i] ELSE 0

RECURSIVE BigNorm(_)
BigNorm(a) ==
    IF a = <<>> \/ a[Len(a)] # 0 THEN a
    ELSE BigNorm(SubSeq(a, 1, Len(a) - 1))

\* The natural number n < 2^31
Big(n) == BigNorm(<<n % Base, (n \div Base) % Base, n \div (Base * Base)>>)

RECURSIVE BigAddC(_, _, _)
BigAddC(a, b, c) ==
    IF b = <<>> /\ c = 0 THEN a
    ELSE IF a = <<>> /\ c = 0 THEN b
    ELSE LET s == Limb(a, 1) + Limb(b, 1) + c
         IN  <<s % Base>> \o BigAddC(Rest(a), Rest(b), s \div Base)

BigAdd(a, b) == BigAddC(a, b, 0)

\* a - b - c, for a >= b + c
RECURSIVE BigSubB(_, _, _)
BigSubB(a, b, c) ==
    IF b = <<>> /\ c = 0 THEN a
    ELSE LET d == Limb(a, 1) - Limb(b, 1) - c
         IN  <<(d + Base) % Base>>
                 \o BigSubB(Rest(a), Rest(b), IF d < 0 THEN 1 ELSE 0)

BigSub(a, b) == BigNorm(BigSubB(a, b, 0))

RECURSIVE BigCmpAt(_, _, _)
BigCmpAt(a, b, i) ==
    IF i = 0 THEN 0
    ELSE IF a[i] # b[i] THEN (IF a[i] < b[i] THEN -1 ELSE 1)
    ELSE BigCmpAt(a, b, i - 1)

\* -1, 0 or 1 as a is below, equal to or above b
BigCmp(a, b) ==
    IF Len(a) # Len(b) THEN (IF Len(a) < Len(b) THEN -1 ELSE 1)
    ELSE BigCmpAt(a, b, Len(a))

\* a * k + c, for k and c below the base
RECURSIVE BigMulC(_, _, _)
BigMulC(a, k, c) ==
    IF a = <<>> THEN (IF c = 0 THEN <<>> ELSE <<c>>)
    ELSE LET p == a[1] * k + c
         IN  <<p % Base>> \o BigMulC(Tail(a), k, p \div Base)

BigMulSmall(a, k) == IF k = 0 THEN <<>> ELSE BigMulC(a, k, 0)

RECURSIVE BigMul(_, _)
BigMul(a, b) ==
    IF a = <<>> \/ b = <<>> THEN <<>>
    ELSE BigAdd(BigMulSmall(a, b[1]),
                IF Len(b) = 1 THEN <<>> ELSE <<0>> \o BigMul(a, Tail(b)))

\* Quotient and remainder of a by d, for 1 <= d <= base
RECURSIVE BigDivC(_, _, _, _)
BigDivC(a, d, i, r) ==
    IF i = 0 THEN [q |-> <<>>, r |-> r]
    ELSE LET c     == r * Base + a[i]
             lower == BigDivC(a, d, i - 1, c % d)
         IN  [q |-> Append(lower.q, c \div d), r |-> lower.r]

BigDivSmall(a, d) ==
    LET x == BigDivC(a, d, Len(a), 0)
    IN  [q |-> BigNorm(x.q), r |-> x.r]

RECURSIVE Bits(_)
Bits(n) == IF n = 0 THEN 0 ELSE 1 + Bits(n \div 2)

\* The number of binary digits of a
BigBits(a) == IF a = <<>> THEN 0 ELSE 15 * (Len(a) - 1) + Bits(a[Len(a)])

\* a * 2^k
BigShl(a, k) ==
    IF a = <<>> THEN <<>>
    ELSE [i \in 1..(k \div 15) |-> 0] \o BigMulSmall(a, 2^(k % 15))

\* a \div 2^k, and whether a binary digit that is 1 was dropped
BigShr(a, k) ==
    LET drop == k \div 15
    IN  IF drop >= Len(a) THEN [q |-> <<>>, sticky |-> a # <<>>]
        ELSE LET x == BigDivSmall(SubSeq(a, drop + 1, Len(a)), 2^(k % 15))
             IN  [q |-> x.q,
                  sticky |-> x.r # 0 \/ \E i \in 1..drop : a[i] # 0]

\* r \div v and r % v where the quotient is below the base and the highest
\* digit of v is at least half the base: a low estimate from the highest
\* digits, then corrected
RECURSIVE BigFix(_, _, _)
BigFix(r, v, q) ==
    IF BigCmp(r, v) >= 0 THEN BigFix(BigSub(r, v), v, q + 1)
    ELSE [q |-> q, r |-> r]

BigDigit(r, v) ==
    LET n   == Len(v)
        est == IF Len(r) > n THEN (r[n + 1] * Base + r[n]) \div (v[n] + 1)
               ELSE IF Len(r) = n THEN r[n] \div (v[n] + 1)
               ELSE 0
    IN  BigFix(BigSub(r, BigMulSmall(v, est)), v, est)

\* Long division of u by v: q holds the digits of the quotient found so far,
\* from the highest of u down, and r what is left of the digits taken; the
\* next digit d.q is put before q and d.r is what it leaves
RECURSIVE BigLong(_, _, _, _)
BigPut(u, v, q, d) == BigLong(u, v, <<d.q>> \o q, d.r)

BigLong(u, v, q, r) ==
    IF Len(q) = Len(u) THEN [q |-> q, r |-> r]
    ELSE BigPut(u, v, q, BigDigit(BigNorm(<<u[Len(u) - Len(q)]>> \o r), v))

BigQuotient(x) == [q |-> BigNorm(x.q), exact |-> x.r = <<>>]

\* u \div v, and whether v divides u, for v > 0
BigDivMod(u, v) ==
    BigQuotient(BigLong(BigShl(u, 15 - Bits(v[Len(v)])),
                        BigShl(v, 15 - Bits(v[Len(v)])), <<>>, <<>>))


RECURSIVE BigPow10(_)
BigPow10(n) == IF n = 0 THEN <<1>> ELSE BigMulSmall(BigPow10(n - 1), 10)

\* The number written with the decimal digits ds, and the decimal digits of a
RECURSIVE BigOfDigits(_)
BigOfDigits(ds) ==
    IF ds = <<>> THEN <<>>
    ELSE BigMulC(BigOfDigits(SubSeq(ds, 1, Len(ds) - 1)), 10, ds[Len(ds)])

RECURSIVE BigDigits(_)
BigDigits(a) ==
    IF a = <<>> THEN <<>>
    ELSE LET x == BigDivSmall(a, 10) IN Append(BigDigits(x.q), x.r)


\* A Number of the program is an IEEE 754 double.  A finite one is
\* (-1)^s * m * 2^e: a normal one has 2^52 <= m < 2^53 and
\* -1074 <= e <= 971, a subnormal one 0 < m < 2^52 and e = -1074, and +0
\* and -0 have m = 0 and e = 0.  Infinity and -Infinity have m = 0 and
\* e = 1024, and NaN has m = 1 and e = 1024.
Double(s, m, e) == [s |-> s, m |-> m, e |-> e]

Infinity(s) == Double(s, <<>>, 1024)
NaN == Double(0, <<1>>, 1024)

IsNaN(x) == x.e = 1024 /\ x.m # <<>>
IsInfinite(x) == x.e = 1024 /\ x.m = <<>>
IsZero(x) == x.e = 0 /\ x.m = <<>>

\* (-1)^s * m * 2^e for m < 2^53 and e >= -1074: beyond the largest double,
\* (2^53 - 1) * 2^971, it is Infinity
Ranged(s, m, e) ==
    IF m = <<>> THEN Double(s, <<>>, 0)
    ELSE IF e > 971 THEN Infinity(s)
    ELSE Double(s, m, e)

\* (-1)^s * m * 2^e for m <= 2^53
Carried(s, m, e) ==
    IF BigBits(m) > 53 THEN Ranged(s, BigDivSmall(m, 2).q, e + 1)
    ELSE Ranged(s, m, e)

\* The double nearest to (2 * h.q + h.r) * 2^(e - 1), where h.q has at most
\* 53 binary digits and sticky tells that the value lies above it by less
\* than 2^(e - 1); of two nearest the one with m even
Halved(s, h, e, sticky) ==
    Carried(s, IF h.r = 1 /\ (sticky \/ Limb(h.q, 1) % 2 = 1)
               THEN BigAdd(h.q, <<1>>) ELSE h.q, e)

Dropped(s, d, e, sticky) == Halved(s, BigDivSmall(d.q, 2), e, d.sticky \/ sticky)

\* The double nearest to m * 2^e when the lowest `drop` binary digits of m
\* have no place in it; drop <= 0 when m has room for -drop more
Placed(s, m, e, sticky, drop) ==
    IF drop <= 0 THEN Ranged(s, BigShl(m, 0 - drop), e + drop)
    ELSE Dropped(s, BigShr(m, drop - 1), e + drop, sticky)

\* The binary digits of m * 2^e that a double has no place for: those
\* beyond 53, and those below 2^-1074
Excess(m, e) ==
    IF BigBits(m) - 53 > 0 - 1074 - e THEN BigBits(m) - 53 ELSE 0 - 1074 - e

\* The double nearest to m * 2^e, where sticky tells that the value lies
\* above m * 2^e by less than 2^e; of two nearest the one with m even.
\* Beyond the largest double it is Infinity, below 2^-1022 it is a
\* subnormal double or 0
Round(s, m, e, sticky) ==
    IF m = <<>> THEN Double(s, <<>>, 0)
    ELSE Placed(s, m, e, sticky, Excess(m, e))

\* (-1)^s * m, for m < 2^53
Whole(s, m) ==
    IF m = <<>> THEN Double(s, <<>>, 0)
    ELSE Double(s, BigShl(m, 53 - BigBits(m)), BigBits(m) - 53)

\* The Number of the integer n
Number(n) == Whole(IF n < 0 THEN 1 ELSE 0, Big(IF n < 0 THEN 0 - n ELSE n))

\* (-1)^xs * a * 2^e + (-1)^ys * b * 2^e, for a and b not 0
Aligned(xs, a, ys, b, e) ==
    IF xs # ys /\ BigCmp(a, b) = 0 THEN Double(0, <<>>, 0)
    ELSE Round(IF xs = ys \/ BigCmp(a, b) > 0 THEN xs ELSE ys,
               IF xs = ys THEN BigAdd(a, b)
               ELSE IF BigCmp(a, b) > 0 THEN BigSub(a, b) ELSE BigSub(b, a),
               e, FALSE)

LeastExponent(x, y) == IF x.e < y.e THEN x.e ELSE y.e

\* x + y.  A finite y below 2^-10 of the last binary digit of x leaves x
Plus(x, y) ==
    IF IsNaN(x) \/ IsNaN(y) THEN NaN
    ELSE IF IsInfinite(x)
    THEN (IF IsInfinite(y) /\ x.s # y.s THEN NaN ELSE x)
    ELSE IF IsInfinite(y) THEN y
    ELSE IF IsZero(x) /\ IsZero(y)
    THEN Double(IF x.s = 1 /\ y.s = 1 THEN 1 ELSE 0, <<>>, 0)
    ELSE IF IsZero(x) THEN y
    ELSE IF IsZero(y) THEN x
    ELSE IF x.e - y.e > 64 THEN x
    ELSE IF y.e - x.e > 64 THEN y
    ELSE Aligned(x.s, BigShl(x.m, x.e - LeastExponent(x, y)),
                 y.s, BigShl(y.m, y.e - LeastExponent(x, y)),
                 LeastExponent(x, y))

\* x - y
Minus(x, y) == Plus(x, Double(1 - y.s, y.m, y.e))

\* x * y
Times(x, y) ==
    IF IsNaN(x) \/ IsNaN(y) THEN NaN
    ELSE IF IsInfinite(x) \/ IsInfinite(y)
    THEN (IF IsZero(x) \/ IsZero(y) THEN NaN ELSE Infinity((x.s + y.s) % 2))
    ELSE Round((x.s + y.s) % 2, BigMul(x.m, y.m), x.e + y.e, FALSE)

\* The double nearest to the quotient d * 2^e
Quotient(s, d, e) == Round(s, d.q, e, ~d.exact)

\* x / y: the quotient of x.m * 2^k by y.m is taken to 60 binary digits
\* or more
Over(x, y) ==
    IF IsNaN(x) \/ IsNaN(y) THEN NaN
    ELSE IF IsInfinite(x)
    THEN (IF IsInfinite(y) THEN NaN ELSE Infinity((x.s + y.s) % 2))
    ELSE IF IsInfinite(y) THEN Double((x.s + y.s) % 2, <<>>, 0)
    ELSE IF IsZero(y)
    THEN (IF IsZero(x) THEN NaN ELSE Infinity((x.s + y.s) % 2))
    ELSE IF IsZero(x) THEN Double((x.s + y.s) % 2, <<>>, 0)
    ELSE Quotient((x.s + y.s) % 2,
                  BigDivMod(BigShl(x.m, 113 - BigBits(x.m)), y.m),
                  x.e - y.e - (113 - BigBits(x.m)))

\* x < y
Less(x, y) ==
    LET below(a, b) == \* |a| < |b|
            IF IsZero(b) THEN FALSE
            ELSE IF IsZero(a) THEN TRUE
            ELSE a.e < b.e \/ (a.e = b.e /\ BigCmp(a.m, b.m) < 0)
    IN  IF IsNaN(x) \/ IsNaN(y) THEN FALSE
        ELSE IF IsZero(x) /\ IsZero(y) THEN FALSE
        ELSE IF x.s = 1 /\ ~IsZero(x)
        THEN (y.s = 0 \/ IsZero(y)) \/ below(y, x)
        ELSE (y.s = 0 /\ below(x, y))

\* let total = 0; for (const x of xs) total += x
RECURSIVE Sum(_)
Sum(xs) ==
    IF xs = <<>> THEN Number(0)
    ELSE Plus(Sum(SubSeq(xs, 1, Len(xs) - 1)), Last(xs))

\* Math.abs(x)
MathAbs(x) == Double(0, x.m, x.e)

\* Math.max(x, y)
MathMax(x, y) ==
    IF IsNaN(x) \/ IsNaN(y) THEN NaN
    ELSE IF Less(x, y) THEN y
    ELSE IF Less(y, x) THEN x
    ELSE IF x.s = 0 THEN x ELSE y

\* A decimal numeral is its sign, its digits before the point and its digits
\* after the point: '-0.50' is [minus |-> TRUE, whole |-> <<0>>, part |-> <<5, 0>>]
Numeral(minus, whole, part) == [minus |-> minus, whole |-> whole, part |-> part]

\* The double nearest to (-1)^s * n / p, taken from the quotient of
\* n * 2^k by p
Scaled(s, n, p, k) == Quotient(s, BigDivMod(BigShl(n, k), p), 0 - k)

\* The double nearest to (-1)^s * n / p: the quotient is taken to 57
\* binary digits or more
Nearest(s, n, p) ==
    Scaled(s, n, p, IF 57 + BigBits(p) > BigBits(n)
                    THEN 57 + BigBits(p) - BigBits(n) ELSE 0)

\* parseFloat(text), for a decimal numeral
parseFloat(text) ==
    Nearest(IF text.minus THEN 1 ELSE 0, BigOfDigits(text.whole \o text.part),
            BigPow10(Len(text.part)))

\* The digits d of a count of 10^-f written with f digits after the point
Pointed(minus, d, f) ==
    Numeral(minus, SubSeq(d, 1, Len(d) - f), SubSeq(d, Len(d) - f + 1, Len(d)))

\* The digits d with 0s before them to make at least f + 1
Padded(d, f) ==
    IF Len(d) > f THEN d ELSE [i \in 1..(f + 1 - Len(d)) |-> 0] \o d

\* (variant: the digits beyond the last kept one are cut off)
toFixedDown(x, f) ==
    Pointed(x.s = 1 /\ ~IsZero(x),
            Padded(BigDigits(
                       IF x.e >= 0 THEN BigShl(BigMul(x.m, BigPow10(f)), x.e)
                       ELSE BigShr(BigMul(x.m, BigPow10(f)), 0 - x.e).q), f),
            f)

\* The integer nearest to p * 2^e, the larger of two
HalfUp(p, e) ==
    IF e >= 0 THEN BigShl(p, e)
    ELSE BigDivSmall(BigAdd(BigShr(p, 0 - e - 1).q, <<1>>), 2).q

\* x.toFixed(f), for a finite x with |x| < 10^21: the numeral of the integer n for which
\* n / 10^f - |x| is nearest to 0, the larger n of two
toFixed(x, f) ==
    Pointed(x.s = 1 /\ ~IsZero(x),
            Padded(BigDigits(HalfUp(BigMul(x.m, BigPow10(f)), x.e)), f), f)

\* The decimal digits of the natural number n, at least w of them
RECURSIVE Digits(_, _)
Digits(n, w) ==
    IF n < 10 /\ w <= 1 THEN <<n>>
    ELSE Append(Digits(n \div 10, w - 1), n % 10)

\* The numeral, with f digits after the point, of the count n of 10^-f:
\* Fixed(-2500000, 6) is '-2.500000'
Fixed(n, f) ==
    Numeral(n < 0, Digits(Abs(n) \div 10^f, 1),
            IF f = 0 THEN <<>> ELSE Digits(Abs(n) % 10^f, f))

\* The count of 10^-f a numeral of at most f digits after the point stands for
RECURSIVE Value(_)
Value(ds) ==
    IF ds = <<>> THEN 0 ELSE 10 * Value(SubSeq(ds, 1, Len(ds) - 1)) + Last(ds)

Units(text, f) ==
    LET n == Value(text.whole \o text.part) * 10^(f - Len(text.part))
    IN  IF text.minus THEN 0 - n ELSE n

\* Digits after the point: of an amount and a fee (toFixed(8)), of a pnl and
\* a price (toFixed(6)), of a value (toFixed(2))
AmountDigits == 8
PnlDigits == 6
ValueDigits == 2

\* new Date(t).toISOString(), for a time t of January 1970 (0 <= t < 2^31):
\* '1970-01-01T00:00:01.000Z' for 1000
toISOString(t) ==
    LET Two(n) == IF n < 10 THEN <<"0">> \o Decimal(n) ELSE Decimal(n)
        Three(n) == IF n < 100 THEN <<"0">> \o Two(n) ELSE Decimal(n)
    IN  <<"1", "9", "7", "0", "-", "0", "1", "-">>
            \o Two(t \div 86400000 + 1) \o <<"T">>
            \o Two((t \div 3600000) % 24) \o <<":">>
            \o Two((t \div 60000) % 60) \o <<":">>
            \o Two((t \div 1000) % 60) \o <<".">>
            \o Three(t % 1000) \o <<"Z">>

\* ------------------------------------------------------------------------
\* TradeGrouper.groupByPosition
\* ------------------------------------------------------------------------
\* The sides of the exchange, and one that is none of them
OpenLong == <<"o", "p", "e", "n", "_", "l", "o", "n", "g">>
CloseLong == <<"c", "l", "o", "s", "e", "_", "l", "o", "n", "g">>
OpenShort == <<"o", "p", "e", "n", "_", "s", "h", "o", "r", "t">>
CloseShort == <<"c", "l", "o", "s", "e", "_", "s", "h", "o", "r", "t">>
Bid == <<"b", "i", "d">>

\* The literal 0.0001
EPSILON == parseFloat(Numeral(FALSE, <<0>>, <<0, 0, 0, 1>>))

\* side.startsWith('open_')
IsOpen(side) == StartsWith(side, <<"o", "p", "e", "n", "_">>)

\* (variant: no side counts as an exit)
IsCloseNever(side) == FALSE

\* side.startsWith('close_')
IsClose(side) == StartsWith(side, <<"c", "l", "o", "s", "e", "_">>)

\* side.includes('long') ? 'long' : 'short'
Direction(side) ==
    IF Includes(side, <<"l", "o", "n", "g">>) THEN "long" ELSE "short"

\* (variant: the magnitude is not taken)
FullyClosedSigned(size) == Less(size, EPSILON)

\* Math.abs(pos.size) < 0.0001
FullyClosed(size) == Less(MathAbs(size), EPSILON)

\* parseFloat(trade.total_amount)
TradeAmount(trade) == parseFloat(trade.total_amount)

\* (variant: no price is taken from the trades)
PriceOfNone(totalValue, totalAmount) == Number(0)

\* totalEntryAmount > 0 ? totalEntryValue / totalEntryAmount : 0, and the
\* same for the exits
PriceOf(totalValue, totalAmount) ==
    IF Less(Number(0), totalAmount) THEN Over(totalValue, totalAmount)
    ELSE Number(0)

\* exitPrice > 0, entryPrice > 0
IsPrice(price) == Less(Number(0), price)

\* exitPrice > 0 && entryPrice > 0
\*   ? ((direction === 'long' ? exitPrice - entryPrice
\*                            : entryPrice - exitPrice) / entryPrice * 100)
\*   : 0
PnlPct(direction, entryPrice, exitPrice) ==
    IF IsPrice(exitPrice) /\ IsPrice(entryPrice)
    THEN Times(Over(IF direction = "long"
                    THEN Minus(exitPrice, entryPrice)
                    ELSE Minus(entryPrice, exitPrice),
                    entryPrice),
               Number(100))
    ELSE Number(0)

\* 'N/A' is the empty sequence and a decimal string the sequence of its
\* numeral alone
NotApplicable == <<>>

\* (variant: the value is written whatever the exit price)
OrWritten(exitPrice, value) == <<value>>

\* exitPrice > 0 ? value : 'N/A'
OrNotApplicable(exitPrice, value) ==
    IF IsPrice(exitPrice) THEN <<value>> ELSE NotApplicable

\* Milliseconds in an hour: 1000 * 60 * 60
HourMs == 3600000

\* toFixed(2) of duration_hours, notional_value and pnl_percentage
PctDigits == 2

\* (variant: the exits are listed before the entries)
AllTradesExitsFirst(entryTrades, exitTrades) == exitTrades \o entryTrades

\* [...entryTrades, ...exitTrades]
AllTrades(entryTrades, exitTrades) == entryTrades \o exitTrades

\* let totalEntryValue = 0; let totalEntryAmount = 0;
\* for (const trade of entryTrades) { ... }, and the same loop over the
\* exits: the two sums
TotalsOf(trades) ==
    LET amount == [i \in 1..Len(trades) |-> parseFloat(trades[i].total_amount)]
        price  == [i \in 1..Len(trades) |-> parseFloat(trades[i].average_price)]
    IN  [value  |-> Sum([i \in 1..Len(trades) |-> Times(amount[i], price[i])]),
         amount |-> Sum(amount)]

\* The object createGroupedPosition returns, of its arguments, of the
\* address and the length of allTrades and of the locals entryPrice,
\* exitPrice, positionSize, totalPnl and totalFees
PricedPosition(symbol, direction, openTime, closeTime, allTrades, tradeCount, entryPrice, exitPrice, positionSize, totalPnl, totalFees) ==
    LET notionalValue == Times(positionSize, entryPrice)
        pnlPct        == PnlPct(direction, entryPrice, exitPrice)
        durationHours == Over(Number(closeTime - openTime), Number(HourMs))
    IN  [position_id        |-> <<symbol, direction, openTime>>,
         symbol             |-> symbol,
         direction          |-> direction,
         opened_at          |-> openTime,
         closed_at          |-> closeTime,
         opened_at_readable |-> toISOString(openTime),
         closed_at_readable |-> toISOString(closeTime),
         duration_hours     |-> parseFloat(toFixed(durationHours, PctDigits)),
         entry_price        |-> toFixed(entryPrice, PnlDigits),
         exit_price         |-> OrNotApplicable(exitPrice,
                                    toFixed(exitPrice, PnlDigits)),
         position_size      |-> toFixed(positionSize, AmountDigits),
         notional_value     |-> toFixed(notionalValue, ValueDigits),
         total_pnl          |-> toFixed(totalPnl, PnlDigits),
         total_fees         |-> toFixed(totalFees, AmountDigits),
         pnl_percentage     |-> OrNotApplicable(exitPrice,
                                    toFixed(pnlPct, PctDigits)),
         trades             |-> allTrades,
         trade_count        |-> tradeCount,
         status             |-> "closed"]

\* The same, of the totals of the entries and of the exits
TotalledPosition(symbol, direction, openTime, closeTime, allTrades, tradeCount, entry, exit, totalPnl, totalFees) ==
    LET entryPrice   == PriceOf(entry.value, entry.amount)
        exitPrice    == PriceOf(exit.value, exit.amount)
        positionSize == MathMax(entry.amount, exit.amount)
    IN  PricedPosition(symbol, direction, openTime, closeTime, allTrades,
                       tradeCount, entryPrice, exitPrice, positionSize,
                       totalPnl, totalFees)

\* TradeGrouper.createGroupedPosition: the heap with the array allTrades
\* and, at its end, the position
createGroupedPosition(h, symbol, direction, entryTrades, exitTrades, openTime, closeTime) ==
    LET h1        == Append(h, AllTrades(h[entryTrades], h[exitTrades]))
        allTrades == Len(h) + 1
        all       == ObjectsOf(h1, allTrades)
        totalPnl  == Sum([i \in 1..Len(all) |-> parseFloat(all[i].total_pnl)])
        totalFees == Sum([i \in 1..Len(all) |-> parseFloat(all[i].total_fee)])
    IN  Append(h1,
               TotalledPosition(symbol, direction, openTime, closeTime,
                                allTrades, Len(h1[allTrades]),
                                TotalsOf(ObjectsOf(h, entryTrades)),
                                TotalsOf(ObjectsOf(h, exitTrades)),
                                totalPnl, totalFees))

\* positionsBySymbol.set(symbol, {direction, size, entryTrades: [],
\* exitTrades: [], startTime}): the two arrays, the accumulator and the entry
SetAccumulator(h, map, symbol, direction, size, startTime) ==
    LET acc == [direction   |-> direction,
                size        |-> size,
                entryTrades |-> Len(h) + 1,
                exitTrades  |-> Len(h) + 2,
                startTime   |-> startTime]
    IN  [h \o <<<<>>, <<>>, acc>> EXCEPT ![map] = MapSet(@, symbol, Len(h) + 3)]

\* (variant: the accumulator of an entry starts without a start time)
NewEntryAccumulatorUntimed(h, map, trade) ==
    SetAccumulator(h, map, h[trade].symbol, Direction(h[trade].side),
                   Number(0), 0)

\* (variant: the accumulator of an entry starts at the entry's last fill)
NewEntryAccumulatorLastFill(h, map, trade) ==
    SetAccumulator(h, map, h[trade].symbol, Direction(h[trade].side),
                   Number(0), h[trade].last_fill_time)

\* positionsBySymbol.set(symbol, {...}) of the entry branch: size: 0,
\* startTime: trade.first_fill_time
NewEntryAccumulator(h, map, trade) ==
    SetAccumulator(h, map, h[trade].symbol, Direction(h[trade].side),
                   Number(0), h[trade].first_fill_time)

\* (variant: the accumulator of an unmatched exit starts at size zero)
NewExitAccumulatorEmpty(h, map, trade) ==
    SetAccumulator(h, map, h[trade].symbol, Direction(h[trade].side),
                   Number(0), h[trade].first_fill_time)

\* positionsBySymbol.set(symbol, {...}) of the exit branch: size: amount,
\* startTime: trade.first_fill_time
NewExitAccumulator(h, map, trade) ==
    SetAccumulator(h, map, h[trade].symbol, Direction(h[trade].side),
                   TradeAmount(h[trade]), h[trade].first_fill_time)

\* The sort keys: a.first_fill_time of the trades of an array, a.opened_at
\* of the positions of one
FirstFillTimes(h, ts) == [i \in 1..Len(ts) |-> h[ts[i]].first_fill_time]
OpenedAts(h, ps) == [i \in 1..Len(ps) |-> h[ps[i]].opened_at]

\* (variant: the map of the call before is kept)
KeptMap(h, last) ==
    IF last = 0 THEN [heap |-> Append(h, <<>>), at |-> Len(h) + 1]
    ELSE [heap |-> h, at |-> last]

\* const positionsBySymbol = new Map(): every call starts from an empty map,
\* whatever the call before left
NewMap(h, last) == [heap |-> Append(h, <<>>), at |-> Len(h) + 1]

\* const sorted = [...trades].sort((a, b) => a.first_fill_time - b.first_fill_time);
\* const positions = []; const positionsBySymbol = new Map()
Locals(h, tradesArg, last) ==
    LET copy == Spread(h, tradesArg)
        h1   == [copy.heap EXCEPT
                    ![copy.at] = SortAsc(@, FirstFillTimes(copy.heap, @))]
        map  == NewMap(Append(h1, <<>>), last)
    IN  [heap |-> map.heap, sorted |-> copy.at, positions |-> Len(h1) + 1,
         map |-> map.at]

\* if (!positionsBySymbol.has(symbol)) { positionsBySymbol.set(...) } of the
\* entry branch
EntryAccumulator(h, map, trade) ==
    IF MapHas(h[map], h[trade].symbol) THEN h
    ELSE NewEntryAccumulator(h, map, trade)

\* const pos = positionsBySymbol.get(symbol); pos.size += amount;
\* pos.entryTrades.push(trade)
AddEntry(h, map, trade) ==
    LET pos == MapGet(h[map], h[trade].symbol)
    IN  [h EXCEPT ![pos].size = Plus(@, TradeAmount(h[trade])),
                  ![h[pos].entryTrades] = Append(@, trade)]

\* if (isOpen) { ... }: the heap after the branch
EntryBranch(h, map, trade) == AddEntry(EntryAccumulator(h, map, trade), map, trade)

\* if (!positionsBySymbol.has(symbol)) { positionsBySymbol.set(...) } of the
\* exit branch
ExitAccumulator(h, map, trade) ==
    IF MapHas(h[map], h[trade].symbol) THEN h
    ELSE NewExitAccumulator(h, map, trade)

\* const pos = positionsBySymbol.get(symbol); pos.size -= amount;
\* pos.exitTrades.push(trade)
SubtractExit(h, map, trade) ==
    LET pos == MapGet(h[map], h[trade].symbol)
    IN  [h EXCEPT ![pos].size = Minus(@, TradeAmount(h[trade])),
                  ![h[pos].exitTrades] = Append(@, trade)]

\* positions.push(position); positionsBySymbol.delete(symbol), of the
\* position at the end of the heap
PushClosed(h, map, positions, symbol) ==
    [h EXCEPT ![positions] = Append(@, Len(h)),
              ![map] = MapDelete(@, symbol)]

\* if (Math.abs(pos.size) < 0.0001) { ... }
CloseIfFlat(h, map, positions, trade) ==
    LET symbol == h[trade].symbol
        pos    == MapGet(h[map], symbol)
    IN  IF FullyClosed(h[pos].size)
        THEN PushClosed(
                 createGroupedPosition(h, symbol, h[pos].direction,
                     h[pos].entryTrades, h[pos].exitTrades,
                     h[pos].startTime, h[trade].last_fill_time),
                 map, positions, symbol)
        ELSE h

\* else if (isClose) { ... }: the heap after the branch
ExitBranch(h, map, positions, trade) ==
    CloseIfFlat(SubtractExit(ExitAccumulator(h, map, trade), map, trade),
                map, positions, trade)

\* The sort and the locals of a call
SortTrades ==
    /\ gpc = "start"
    /\ LET locals == Locals(heap, tradesAt, positionsBySymbolAt)
       IN  /\ heap' = locals.heap
           /\ sortedAt' = locals.sorted
           /\ positionsAt' = locals.positions
           /\ positionsBySymbolAt' = locals.map
    /\ emissions' = <<>>
    /\ cur' = 1
    /\ gpc' = "loop"
    /\ UNCHANGED <<tradesAt, runs, firstRun, fetchVars, orderVars, limiterVars>>

\* if (isOpen) { ... }
EntryTrade ==
    /\ gpc = "loop"
    /\ cur <= Len(heap[sortedAt])
    /\ IsOpen(heap[heap[sortedAt][cur]].side)
    /\ heap' = EntryBranch(heap, positionsBySymbolAt, heap[sortedAt][cur])
    /\ cur' = cur + 1
    /\ UNCHANGED <<gpc, tradesAt, sortedAt, positionsBySymbolAt, positionsAt,
                   emissions, runs, firstRun, fetchVars, orderVars,
                   limiterVars>>

\* else if (isClose) { ... }
ExitTrade ==
    /\ gpc = "loop"
    /\ cur <= Len(heap[sortedAt])
    /\ ~IsOpen(heap[heap[sortedAt][cur]].side)
    /\ IsClose(heap[heap[sortedAt][cur]].side)
    /\ LET trade == heap[sortedAt][cur]
           had   == ExitAccumulator(heap, positionsBySymbolAt, trade)
           pos   == MapGet(had[positionsBySymbolAt], heap[trade].symbol)
       IN  /\ heap' = ExitBranch(heap, positionsBySymbolAt, positionsAt, trade)
           /\ emissions' =
                 IF Len(heap'[positionsAt]) > Len(heap[positionsAt])
                 THEN Append(emissions,
                          [position |-> PositionOf(heap', Last(heap'[positionsAt])),
                           size     |-> heap'[pos].size])
                 ELSE emissions
    /\ cur' = cur + 1
    /\ UNCHANGED <<gpc, tradesAt, sortedAt, positionsBySymbolAt, positionsAt,
                   runs, firstRun, fetchVars, orderVars, limiterVars>>

\* a side with neither prefix: the loop body does nothing
OtherTrade ==
    /\ gpc = "loop"
    /\ cur <= Len(heap[sortedAt])
    /\ ~IsOpen(heap[heap[sortedAt][cur]].side)
    /\ ~IsClose(heap[heap[sortedAt][cur]].side)
    /\ cur' = cur + 1
    /\ UNCHANGED <<gpc, tradesAt, sortedAt, positionsBySymbolAt, positionsAt,
                   emissions, fetchVars, orderVars, limiterVars, pipelineVars>>

\* position.status = 'open'; positions.push(position), of the position at
\* the end of the heap
PushOpen(h, positions) ==
    [h EXCEPT ![Len(h)].status = "open", ![positions] = Append(@, Len(h))]

\* (variant: the close time is the start time, exits or not)
UnclosedPositionAtStart(h, positions, symbol, pos) ==
    PushOpen(createGroupedPosition(h, symbol, h[pos].direction,
                 h[pos].entryTrades, h[pos].exitTrades, h[pos].startTime,
                 h[pos].startTime),
             positions)

\* One turn of `for (const [symbol, pos] of positionsBySymbol)`: the position
\* of an unclosed accumulator is made, set to 'open' and pushed
UnclosedPosition(h, positions, symbol, pos) ==
    LET exitTrades == h[h[pos].exitTrades]
    IN  PushOpen(createGroupedPosition(h, symbol, h[pos].direction,
                     h[pos].entryTrades, h[pos].exitTrades, h[pos].startTime,
                     IF Len(exitTrades) > 0
                     THEN h[exitTrades[Len(exitTrades)]].last_fill_time
                     ELSE h[pos].startTime),
                 positions)

\* for (const [symbol, pos] of positionsBySymbol) { ... }
RECURSIVE UnclosedPositions(_, _, _)
UnclosedPositions(h, positions, entries) ==
    IF entries = <<>> THEN h
    ELSE UnclosedPositions(
             UnclosedPosition(h, positions, Head(entries).key,
                              Head(entries).value),
             positions, Tail(entries))

\* return positions.sort((a, b) => b.opened_at - a.opened_at)
SortPositions(h, positions) ==
    [h EXCEPT ![positions] = SortDesc(@, OpenedAts(h, @))]

\* The loop over the unclosed accumulators and the final sort; `pushed` is
\* the heap after the loop
EmitUnclosed ==
    /\ gpc = "loop"
    /\ cur > Len(heap[sortedAt])
    /\ \E pushed \in {UnclosedPositions(heap, positionsAt,
                                        heap[positionsBySymbolAt])} :
          /\ heap' = SortPositions(pushed, positionsAt)
          /\ emissions' = emissions \o
                 [i \in 1..Len(heap[positionsBySymbolAt]) |->
                     [position |-> PositionOf(pushed,
                          pushed[positionsAt][Len(heap[positionsAt]) + i]),
                      size     |-> heap[heap[positionsBySymbolAt][i].value].size]]
    /\ gpc' = "done"
    /\ UNCHANGED <<tradesAt, sortedAt, cur, positionsBySymbolAt, positionsAt,
                   runs, firstRun, fetchVars, orderVars, limiterVars>>

\* The body of `for (const trade of sorted)`: the heap after it
ProcessTrade(h, map, positions, trade) ==
    IF IsOpen(h[trade].side) THEN EntryBranch(h, map, trade)
    ELSE IF IsClose(h[trade].side) THEN ExitBranch(h, map, positions, trade)
    ELSE h

\* for (const trade of sorted) { ... }
RECURSIVE ProcessTrades(_, _, _, _)
ProcessTrades(h, map, positions, ts) ==
    IF ts = <<>> THEN h
    ELSE ProcessTrades(ProcessTrade(h, map, positions, Head(ts)), map,
                       positions, Tail(ts))

\* TradeGrouper.groupByPosition, as a function of the heap and the array
\* handed in: the heap after the call and the array returned
groupByPosition(h, tradesArg) ==
    LET locals == Locals(h, tradesArg, 0)
        h1     == ProcessTrades(locals.heap, locals.map, locals.positions,
                                locals.heap[locals.sorted])
        h2     == UnclosedPositions(h1, locals.positions, h1[locals.map])
    IN  [heap |-> SortPositions(h2, locals.positions),
         at   |-> locals.positions]

\* The inputs of groupByPosition: entries and exits on one symbol whose
\* amounts leave 0, less than 0.0001 or 0.0001 and more, at two first-fill
\* times and filled at once or over 500 ms; entries and exits of the other
\* direction, on a second symbol, and a trade that is neither
Symbols == {"BTC", "ETH"}
Sides == {OpenLong, CloseLong, OpenShort, CloseShort, Bid}
FillTimes == {1000, 2000}

\* Trades of the price '100.000000', without fee or pnl
FlatPrices == {Fixed(100000000, PnlDigits)}
NoFees == {Fixed(0, AmountDigits)}
NoPnls == {Fixed(0, PnlDigits)}

\* How long the fills of a trade may take (ms)
FillSpans == {0, 500}

\* '0.00010000', '0.00020000', '0.00030000', '0.00040000'
Amount1 == Fixed(10000, AmountDigits)
Amount2 == Fixed(20000, AmountDigits)
Amount3 == Fixed(30000, AmountDigits)
Amount4 == Fixed(40000, AmountDigits)

TradeShapes ==
    [symbol : {"BTC"}, side : {OpenLong}, total_amount : {Amount2, Amount3},
     first_fill_time : FillTimes, span : {0},
     average_price : FlatPrices, total_fee : NoFees, total_pnl : NoPnls]
    \cup [symbol : {"BTC"}, side : {CloseLong},
          total_amount : {Amount1, Amount2}, first_fill_time : FillTimes,
          span : {0},
          average_price : FlatPrices, total_fee : NoFees, total_pnl : NoPnls]
    \cup [symbol : {"BTC"}, side : {CloseLong},
          total_amount : {Amount1, Amount2}, first_fill_time : {2000},
          span : FillSpans \ {0},
          average_price : FlatPrices, total_fee : NoFees, total_pnl : NoPnls]
    \cup [symbol : {"BTC"}, side : {OpenShort},
          total_amount : {Amount2}, first_fill_time : FillTimes, span : {0},
          average_price : FlatPrices, total_fee : NoFees, total_pnl : NoPnls]
    \cup [symbol : {"BTC"}, side : {CloseShort},
          total_amount : {Amount2}, first_fill_time : {1000}, span : {0},
          average_price : FlatPrices, total_fee : NoFees, total_pnl : NoPnls]
    \cup [symbol : {"BTC"}, side : {Bid},
          total_amount : {Amount2}, first_fill_time : {1000}, span : {0},
          average_price : FlatPrices, total_fee : NoFees, total_pnl : NoPnls]
    \cup [symbol : {"ETH"}, side : {OpenLong, CloseLong},
          total_amount : {Amount2}, first_fill_time : {1000}, span : {0},
          average_price : FlatPrices, total_fee : NoFees, total_pnl : NoPnls]

\* Entries and exits of 0.0002 and of 0.0004 on one symbol, which can bring
\* the exposure below zero and back to it
ExposureShapes ==
    [symbol : {"BTC"}, side : {OpenLong, CloseLong},
     total_amount : {Amount2, Amount4}, first_fill_time : FillTimes, span : {0},
     average_price : FlatPrices, total_fee : NoFees, total_pnl : NoPnls]
    \cup [symbol : {"BTC"}, side : {Bid},
          total_amount : {Amount2}, first_fill_time : {1000}, span : {0},
          average_price : FlatPrices, total_fee : NoFees, total_pnl : NoPnls]

\* '100.000000' and '110.000000'; a fee of '0.00005000'; a pnl of
\* '10.000000' and one of '-2.500000'
Price100 == Fixed(100000000, PnlDigits)
Price110 == Fixed(110000000, PnlDigits)
Fee5 == Fixed(5000, AmountDigits)
Pnl10 == Fixed(10000000, PnlDigits)
PnlLoss == Fixed(0 - 2500000, PnlDigits)

\* Entries and exits at two prices, with a fee on every trade and a pnl on
\* the exits; long and short; an entry and an exit of twice the amount, for
\* averages over unequal amounts; an entry on a second symbol
PriceShapes ==
    [symbol : {"BTC"}, side : {OpenLong}, total_amount : {Amount2},
     first_fill_time : {1000}, span : {0}, average_price : {Price100, Price110},
     total_fee : {Fee5}, total_pnl : NoPnls]
    \cup [symbol : {"BTC"}, side : {CloseLong}, total_amount : {Amount2},
          first_fill_time : {2000}, span : {0},
          average_price : {Price100, Price110},
          total_fee : {Fee5}, total_pnl : {Pnl10}]
    \cup [symbol : {"BTC"}, side : {OpenShort}, total_amount : {Amount2},
          first_fill_time : {1000}, span : {0}, average_price : {Price110},
          total_fee : {Fee5}, total_pnl : NoPnls]
    \cup [symbol : {"BTC"}, side : {CloseShort}, total_amount : {Amount2},
          first_fill_time : {2000}, span : {0}, average_price : {Price100},
          total_fee : {Fee5}, total_pnl : {Pnl10}]
    \cup [symbol : {"BTC"}, side : {OpenLong}, total_amount : {Amount4},
          first_fill_time : {1000}, span : {0}, average_price : {Price100},
          total_fee : {Fee5}, total_pnl : NoPnls]
    \cup [symbol : {"BTC"}, side : {CloseLong}, total_amount : {Amount4},
          first_fill_time : {2000}, span : {0}, average_price : {Price110},
          total_fee : {Fee5}, total_pnl : {PnlLoss}]
    \cup [symbol : {"ETH"}, side : {OpenLong}, total_amount : {Amount2},
          first_fill_time : {1000}, span : {0}, average_price : {Price100},
          total_fee : {Fee5}, total_pnl : NoPnls]
    \cup [symbol : {"BTC"}, side : {Bid}, total_amount : {Amount2},
          first_fill_time : {1000}, span : {0}, average_price : {Price100},
          total_fee : NoFees, total_pnl : NoPnls]

\* A GroupedTrade; trade_id tells the trades of one input apart
MakeTrade(shape, id) ==
    [trade_id        |-> id,
     symbol          |-> shape.symbol,
     side            |-> shape.side,
     total_amount    |-> shape.total_amount,
     average_price   |-> shape.average_price,
     total_fee       |-> shape.total_fee,
     total_pnl       |-> shape.total_pnl,
     first_fill_time |-> shape.first_fill_time,
     last_fill_time  |-> shape.first_fill_time + shape.span]

\* The trades of the shapes, as a caller's objects
MakeTrades(shapes) == [i \in 1..Len(shapes) |-> MakeTrade(shapes[i], i)]

NextPosition ==
    \/ SortTrades
    \/ EntryTrade
    \/ ExitTrade
    \/ OtherTrade
    \/ EmitUnclosed

\* ------------------------------------------------------------------------
\* TradeGrouper.groupByOrder
\* ------------------------------------------------------------------------
\* (variant: every fill is keyed by its history_id)
OrderKeySingle(fill) == [single |-> TRUE, id |-> fill.history_id]

\* An absent order_id is <<>>, the order_id n is <<n>>.
\* fill.order_id?.toString() || `single_${fill.history_id}`
OrderKey(fill) ==
    IF fill.order_id # <<>>
    THEN [single |-> FALSE, id |-> fill.order_id[1]]
    ELSE [single |-> TRUE, id |-> fill.history_id]

\* TradeGrouper.toFillEvent
toFillEvent(item) ==
    [history_id |-> item.history_id,
     amount     |-> item.amount,
     price      |-> item.price,
     fee        |-> item.fee,
     pnl        |-> item.pnl,
     created_at |-> item.created_at]

\* (variant: an absent fee or pnl counts as one)
OrOne(x) == IF x = <<>> THEN Numeral(FALSE, <<1>>, <<>>) ELSE x[1]

\* fill.fee || '0', fill.pnl || '0': an absent fee or pnl is <<>>, the
\* decimal string of one is the sequence of its numeral alone
OrZero(x) == IF x = <<>> THEN Numeral(FALSE, <<0>>, <<>>) ELSE x[1]

\* const avgPrice = totalAmount > 0 ? totalValue / totalAmount : 0
AveragePrice(totalValue, totalAmount) ==
    IF Less(Number(0), totalAmount) THEN Over(totalValue, totalAmount)
    ELSE Number(0)

\* The object createGroupedTrade returns, of the first and the last fill,
\* of the address and the length of the array of FillEvents and of the
\* locals totalValue, totalAmount, totalFee and totalPnl
TotalledTrade(tradeId, first, last, fillEvents, fillCount, totalValue, totalAmount, totalFee, totalPnl) ==
    LET avgPrice == AveragePrice(totalValue, totalAmount)
    IN  [trade_id        |-> tradeId,
         order_id        |-> first.order_id,
         symbol          |-> first.symbol,
         side            |-> first.side,
         total_amount    |-> toFixed(totalAmount, AmountDigits),
         average_price   |-> toFixed(avgPrice, PnlDigits),
         total_value     |-> toFixed(totalValue, ValueDigits),
         total_fee       |-> toFixed(totalFee, AmountDigits),
         total_pnl       |-> toFixed(totalPnl, PnlDigits),
         first_fill_time |-> first.created_at,
         last_fill_time  |-> last.created_at,
         fills           |-> fillEvents,
         fill_count      |-> fillCount]

\* TradeGrouper.createGroupedTrade: the heap with the FillEvents of
\* fills.map(...), their array and, at its end, the trade
createGroupedTrade(h, tradeId, groupedFills) ==
    LET fs          == ObjectsOf(h, groupedFills)
        amount      == [i \in 1..Len(fs) |-> parseFloat(fs[i].amount)]
        price       == [i \in 1..Len(fs) |-> parseFloat(fs[i].price)]
        fee         == [i \in 1..Len(fs) |-> parseFloat(OrZero(fs[i].fee))]
        pnl         == [i \in 1..Len(fs) |-> parseFloat(OrZero(fs[i].pnl))]
        totalValue  == Sum([i \in 1..Len(fs) |-> Times(amount[i], price[i])])
        totalAmount == Sum(amount)
        totalFee    == Sum(fee)
        totalPnl    == Sum(pnl)
        h1          == (h \o [i \in 1..Len(fs) |-> toFillEvent(fs[i])])
                          \o <<[i \in 1..Len(fs) |-> Len(h) + i]>>
    IN  Append(h1,
               TotalledTrade(tradeId, fs[1], fs[Len(fs)], Len(h1), Len(fs),
                             totalValue, totalAmount, totalFee, totalPnl))

\* (variant: the group is set anew at every fill)
PushFillOverwrite(h, orderGroups, fill) ==
    [Append(h, <<fill>>) EXCEPT
        ![orderGroups] = MapSet(@, OrderKey(h[fill]), Len(h) + 1)]

\* if (!orderGroups.has(key)) orderGroups.set(key, []);
\* orderGroups.get(key).push(fill)
PushFill(h, orderGroups, fill) ==
    LET key == OrderKey(h[fill])
        h1  == IF MapHas(h[orderGroups], key) THEN h
               ELSE [Append(h, <<>>) EXCEPT
                        ![orderGroups] = MapSet(@, key, Len(h) + 1)]
    IN  [h1 EXCEPT ![MapGet(h1[orderGroups], key)] = Append(@, fill)]

\* for (const fill of sorted) { ... }
RECURSIVE GroupFills(_, _, _)
GroupFills(h, orderGroups, fs) ==
    IF fs = <<>> THEN h
    ELSE GroupFills(PushFill(h, orderGroups, Head(fs)), orderGroups, Tail(fs))

\* trades.push(trade), of the trade at the end of the heap
PushTrade(h, tradesArray) == [h EXCEPT ![tradesArray] = Append(@, Len(h))]

\* for (const [orderId, groupedFills] of orderGroups)
\*   trades.push(this.createGroupedTrade(orderId, groupedFills))
RECURSIVE PushTrades(_, _, _)
PushTrades(h, tradesArray, groups) ==
    IF groups = <<>> THEN h
    ELSE PushTrades(PushTrade(createGroupedTrade(h, Head(groups).key,
                                                 Head(groups).value),
                              tradesArray),
                    tradesArray, Tail(groups))

\* The sort key a.created_at of the fills of an array
CreatedAts(h, fs) == [i \in 1..Len(fs) |-> h[fs[i]].created_at]

\* (variant: the fills are grouped in the order given)
SortFillsNone(h, a) == h

\* .sort((a, b) => a.created_at - b.created_at), of the array at a
SortFills(h, a) == [h EXCEPT ![a] = SortAsc(@, CreatedAts(h, @))]

\* TradeGrouper.groupByOrder, as a function of the heap and the array handed
\* in: the heap after the call and the array returned
groupByOrder(h, fillsArg) ==
    LET copy        == Spread(h, fillsArg)
        h1          == SortFills(copy.heap, copy.at)
        orderGroups == Len(h1) + 1
        h2          == GroupFills(Append(h1, <<>>), orderGroups, h1[copy.at])
        tradesArray == Len(h2) + 1
    IN  [heap |-> PushTrades(Append(h2, <<>>), tradesArray, h2[orderGroups]),
         at   |-> tradesArray]

GroupByOrder ==
    /\ opc = "start"
    /\ \E call \in {groupByOrder(heap, fillsAt)} :
          /\ heap' = call.heap
          /\ orderTradesAt' = call.at
    /\ opc' = "done"
    /\ UNCHANGED <<fillsAt, runs, firstRun, fetchVars, positionVars,
                   limiterVars>>

\* The inputs of groupByOrder: fills of '0.0002' at the price '100'
HistoryIds == {1, 2}
OrderIds == {<<>>, <<7>>, <<8>>}
FillAmount == Fixed(2, 4)
FillPrice == Fixed(100, 0)

FillInputs ==
    [history_id : HistoryIds, order_id : OrderIds, symbol : {"BTC"},
     side : {OpenLong, CloseLong}, amount : {FillAmount},
     price : {FillPrice}, fee : {<<>>}, pnl : {<<>>}, created_at : FillTimes]

\* Fills told apart by their history_id: the i-th of the input has history_id i
WithHistoryIds(shapes) ==
    [i \in 1..Len(shapes) |-> [history_id |-> i] @@ shapes[i]]

\* Fills that differ in what groups and orders them: every order_id, side
\* and time on one symbol, and the fills of one order on a second symbol
KeyShapes ==
    [order_id : OrderIds, symbol : {"BTC"},
     side : {OpenLong, CloseLong}, amount : {FillAmount},
     price : {FillPrice}, fee : {<<>>}, pnl : {<<>>}, created_at : FillTimes]
    \cup
    [order_id : {<<7>>}, symbol : {"ETH"},
     side : {OpenLong, CloseLong}, amount : {FillAmount},
     price : {FillPrice}, fee : {<<>>}, pnl : {<<>>}, created_at : FillTimes]

\* Fills that differ in what is summed: amounts of '0', '0.000002' and
\* '0.000003' at the prices '1001' and '1003', fees of '0.00000012' and pnl
\* of '-2.5', a fill without order_id of '0.0123' at the price '101'; a fill
\* of '0.015' at the price '1', whose value lies halfway between two cents,
\* and fills of '0.5' at the prices '1.000000' and '1.000001', whose average
\* lies halfway between two numerals of 6 decimals
TotalShapes ==
    [order_id : {<<7>>}, symbol : {"BTC"}, side : {OpenLong},
     amount : {Fixed(0, 0), Fixed(2, 6), Fixed(3, 6)},
     price : {Fixed(1001, 0), Fixed(1003, 0)}, fee : {<<>>},
     pnl : {<<>>}, created_at : {1000}]
    \cup
    [order_id : {<<>>, <<7>>}, symbol : {"BTC"}, side : {CloseLong},
     amount : {Fixed(2, 6)}, price : {Fixed(1001, 0)},
     fee : {<<>>, <<Fixed(12, 8)>>},
     pnl : {<<>>, <<Fixed(0 - 25, 1)>>}, created_at : {1000}]
    \cup
    [order_id : {<<>>}, symbol : {"BTC"}, side : {OpenLong},
     amount : {Fixed(123, 4)}, price : {Fixed(101, 0)}, fee : {<<>>},
     pnl : {<<>>}, created_at : {1000}]
    \cup
    [order_id : {<<>>}, symbol : {"BTC"}, side : {OpenLong},
     amount : {Fixed(15, 3)}, price : {Fixed(1, 0)}, fee : {<<>>},
     pnl : {<<>>}, created_at : {1000}]
    \cup
    [order_id : {<<8>>}, symbol : {"BTC"}, side : {OpenLong},
     amount : {Fixed(5, 1)},
     price : {Fixed(1000000, 6), Fixed(1000001, 6)}, fee : {<<>>},
     pnl : {<<>>}, created_at : {1000}]

NextOrder == GroupByOrder

\* ------------------------------------------------------------------------
\* One TradeGrouper, grouping the same fills more than once: groupByOrder,
\* then groupByPosition on its trades
\* ------------------------------------------------------------------------
\* const groupedPositions = grouper.groupByPosition(groupedTrades)
HandOver ==
    /\ opc = "done"
    /\ gpc = "idle"
    /\ tradesAt' = orderTradesAt
    /\ gpc' = "start"
    /\ UNCHANGED <<sortedAt, cur, positionsBySymbolAt, positionsAt, emissions,
                   fetchVars, orderVars, limiterVars, pipelineVars>>

\* The same grouper is given the same array of fills again, as the first
\* run left it; what the first run returned is kept aside
RunAgain ==
    /\ gpc = "done"
    /\ runs < MaxRuns
    /\ runs' = runs + 1
    /\ firstRun' = IF runs = 0
                   THEN [trades    |-> TradesOf(heap, orderTradesAt),
                         positions |-> PositionsOf(heap, positionsAt)]
                   ELSE firstRun
    /\ opc' = "start"
    /\ gpc' = "idle"
    /\ UNCHANGED <<heap, fillsAt, orderTradesAt, tradesAt, sortedAt, cur,
                   positionsBySymbolAt, positionsAt, emissions, fetchVars,
                   limiterVars>>

\* Fills of one symbol with and without an order_id, entries and exits
PipelineShapes ==
    [order_id : {<<>>, <<7>>}, symbol : {"BTC"},
     side : {OpenLong, CloseLong}, amount : {FillAmount},
     price : {FillPrice}, fee : {<<>>}, pnl : {<<>>}, created_at : FillTimes]
    \cup [order_id : {<<8>>}, symbol : {"BTC"}, side : {Bid},
          amount : {FillAmount}, price : {FillPrice}, fee : {<<>>},
          pnl : {<<>>}, created_at : {1000}]

NextPipeline ==
    \/ GroupByOrder
    \/ HandOver
    \/ SortTrades
    \/ EntryTrade
    \/ ExitTrade
    \/ OtherTrade
    \/ EmitUnclosed
    \/ RunAgain

\* ------------------------------------------------------------------------
\* The two stages called one after the other on arrays of the caller's own:
\* groupByOrder on fills, then groupByPosition on trades in any order
\* ------------------------------------------------------------------------
StageFillShapes ==
    [order_id : {<<7>>}, symbol : {"BTC"}, side : {OpenLong},
     amount : {FillAmount}, price : {FillPrice}, fee : {<<>>}, pnl : {<<>>},
     created_at : FillTimes]
    \cup [order_id : {<<>>}, symbol : {"BTC"}, side : {CloseLong},
          amount : {FillAmount}, price : {FillPrice}, fee : {<<>>},
          pnl : {<<>>}, created_at : {1000}]

StageTradeShapes ==
    [symbol : {"BTC"}, side : {OpenLong}, total_amount : {Amount2},
     first_fill_time : FillTimes, span : {0}, average_price : FlatPrices,
     total_fee : NoFees, total_pnl : NoPnls]
    \cup [symbol : {"BTC"}, side : {CloseLong, Bid},
          total_amount : {Amount2}, first_fill_time : {1000}, span : {0},
          average_price : FlatPrices, total_fee : NoFees, total_pnl : NoPnls]

\* grouper.groupByPosition(trades), for an array of trades of the caller:
\* its objects and the array are new
CallGroupByPosition ==
    /\ opc = "done"
    /\ gpc = "idle"
    /\ \E shapes \in SeqsUpTo(StageTradeShapes, MaxTrades) :
          /\ heap' = (heap \o MakeTrades(shapes))
                        \o <<[i \in 1..Len(shapes) |-> Len(heap) + i]>>
          /\ tradesAt' = Len(heap) + Len(shapes) + 1
    /\ gpc' = "start"
    /\ UNCHANGED <<sortedAt, cur, positionsBySymbolAt, positionsAt, emissions,
                   runs, firstRun, fetchVars, orderVars, limiterVars>>

NextStages ==
    \/ GroupByOrder
    \/ CallGroupByPosition
    \/ SortTrades
    \/ EntryTrade
    \/ ExitTrade
    \/ OtherTrade
    \/ EmitUnclosed

\* ------------------------------------------------------------------------
\* RateLimiter.waitIfNeeded, step by step, for a caller of its own
\* ------------------------------------------------------------------------
\* waitIfNeeded, from its call to its first await: the window is filtered,
\* then either sleep(waitTime) or sleep(delayBetweenRequests) is begun.
EnterWaitIfNeeded ==
    /\ tpc = "call"
    /\ callCount < MaxCalls
    /\ callCount' = callCount + 1
    /\ now' = clock
    /\ requestTimestamps' = Recent(requestTimestamps, clock)
    /\ IF AtCeiling(requestTimestamps')
          /\ WaitTime(requestTimestamps', clock) > 0
       THEN /\ tpc' = "window"
            /\ wakeAt' = sleep(clock, WaitTime(requestTimestamps', clock))
       ELSE /\ tpc' = "delay"
            /\ wakeAt' = sleep(clock, delayBetweenRequests)
    /\ UNCHANGED <<clock, delayBetweenRequests, world, sent, fetchVars,
                   positionVars, orderVars, pipelineVars>>

\* await this.sleep(waitTime) resolves; sleep(delayBetweenRequests) is begun
WindowElapsed ==
    /\ tpc = "window"
    /\ \E late \in world.late : clock' = wakeAt + late
    /\ tpc' = "delay"
    /\ wakeAt' = sleep(clock', delayBetweenRequests)
    /\ UNCHANGED <<now, requestTimestamps, delayBetweenRequests, world, callCount,
                   sent, fetchVars, positionVars, orderVars,
                   pipelineVars>>

\* await this.sleep(this.delayBetweenRequests) resolves; the timestamp is
\* pushed and the call returns
DelayElapsed ==
    /\ tpc = "delay"
    /\ \E late \in world.late : clock' = wakeAt + late
    /\ requestTimestamps' = PushTimestamp(requestTimestamps, clock')
    /\ tpc' = "after"
    /\ UNCHANGED <<now, delayBetweenRequests, world, wakeAt, callCount,
                   sent, fetchVars, positionVars, orderVars, pipelineVars>>

\* A sequential caller: it does its work between two calls
Gaps == {0, OneMinute}
CallerWorks ==
    /\ tpc = "after"
    /\ \E gap \in Gaps : clock' = clock + gap
    /\ tpc' = "call"
    /\ UNCHANGED <<now, requestTimestamps, delayBetweenRequests, world, wakeAt,
                   callCount, sent, fetchVars, positionVars,
                   orderVars, pipelineVars>>

NextLimiter ==
    \/ EnterWaitIfNeeded
    \/ WindowElapsed
    \/ DelayElapsed
    \/ CallerWorks

\* ------------------------------------------------------------------------
\* The arrays and the Map of the two stages, as values
\* ------------------------------------------------------------------------
fills == ObjectsOf(heap, fillsAt)
orderTrades == TradesOf(heap, orderTradesAt)
trades == TradesOf(heap, tradesAt)
sorted == TradesOf(heap, sortedAt)
positions == PositionsOf(heap, positionsAt)
positionsBySymbol == AccumulatorsOf(heap, positionsBySymbolAt)



\* ------------------------------------------------------------------------
\* Specifications
\* ------------------------------------------------------------------------
\* One fetchAllPages run of a new PacificaFetcher against the mocked server,
\* whose answers all take the same time, with timers all equally late or
\* early; the grouper is not called
InitFetch ==
    /\ fpc = "loop"
    /\ cursor = NoText
    /\ allData = <<>>
    /\ pageCount = 0
    /\ reqCursor = NoText
    /\ attempt = 1
    /\ response = NoEnvelope
    /\ returned = Pending
    /\ error = <<>>
    /\ rateLimiterCalls = 0
    /\ pageLog = <<>>
    /\ served = <<>>
    /\ gpc = "start"
    /\ tradesAt = 0
    /\ sortedAt = 0
    /\ cur = 1
    /\ positionsBySymbolAt = 0
    /\ positionsAt = 0
    /\ emissions = <<>>
    /\ opc = "start"
    /\ fillsAt = 0
    /\ orderTradesAt = 0
    /\ clock = 0
    /\ tpc = "call"
    /\ now = 0
    /\ requestTimestamps = <<>>
    /\ delayBetweenRequests = DefaultDelayMs
    /\ \E lat \in Latency, late \in Jitter :
          world = Environment({lat}, {late}, MaxRequests)
    /\ wakeAt = 0
    /\ callCount = 0
    /\ sent = <<>>
    /\ runs = 0
    /\ firstRun = NoRun
    /\ heap = <<>>

SpecFetch == InitFetch /\ [][NextFetch]_vars

\* One groupByPosition run on a trade sequence; the fetcher is not called
InitPosition ==
    /\ \E shapes \in SeqsUpTo(TradeShapes, MaxTrades) :
          /\ heap = Given(MakeTrades(shapes))
          /\ tradesAt = Len(shapes) + 1
    /\ gpc = "start"
    /\ sortedAt = 0
    /\ cur = 1
    /\ positionsBySymbolAt = 0
    /\ positionsAt = 0
    /\ emissions = <<>>
    /\ opc = "start"
    /\ fillsAt = 0
    /\ orderTradesAt = 0
    /\ fpc = "loop"
    /\ cursor = NoText
    /\ allData = <<>>
    /\ pageCount = 0
    /\ reqCursor = NoText
    /\ attempt = 1
    /\ response = NoEnvelope
    /\ returned = Pending
    /\ error = <<>>
    /\ rateLimiterCalls = 0
    /\ pageLog = <<>>
    /\ served = <<>>
    /\ clock = 0
    /\ tpc = "call"
    /\ now = 0
    /\ requestTimestamps = <<>>
    /\ delayBetweenRequests = DefaultDelayMs
    /\ world = Environment({0}, {0}, 0)
    /\ wakeAt = 0
    /\ callCount = 0
    /\ sent = <<>>
    /\ runs = 0
    /\ firstRun = NoRun

SpecPosition == InitPosition /\ [][NextPosition]_vars

\* One groupByOrder run on a fill sequence; the fetcher is not called
InitOrder ==
    /\ \E shapes \in SeqsUpTo(FillInputs, MaxFills) :
          /\ heap = Given(shapes)
          /\ fillsAt = Len(shapes) + 1
    /\ opc = "start"
    /\ orderTradesAt = 0
    /\ gpc = "start"
    /\ tradesAt = 0
    /\ sortedAt = 0
    /\ cur = 1
    /\ positionsBySymbolAt = 0
    /\ positionsAt = 0
    /\ emissions = <<>>
    /\ fpc = "loop"
    /\ cursor = NoText
    /\ allData = <<>>
    /\ pageCount = 0
    /\ reqCursor = NoText
    /\ attempt = 1
    /\ response = NoEnvelope
    /\ returned = Pending
    /\ error = <<>>
    /\ rateLimiterCalls = 0
    /\ pageLog = <<>>
    /\ served = <<>>
    /\ clock = 0
    /\ tpc = "call"
    /\ now = 0
    /\ requestTimestamps = <<>>
    /\ delayBetweenRequests = DefaultDelayMs
    /\ world = Environment({0}, {0}, 0)
    /\ wakeAt = 0
    /\ callCount = 0
    /\ sent = <<>>
    /\ runs = 0
    /\ firstRun = NoRun

SpecOrder == InitOrder /\ [][NextOrder]_vars

\* What a RateLimiter of the delay `delay` holds when it has served n calls,
\* n <= 120, of a caller that began at time 0 and works `work` ms between
\* two calls, every timer firing `late` ms after it was due, and the time
\* at which the caller calls next.  No call found the window full, so call
\* i began at (i - 1) * (delay + late + work) and pushed delay + late
\* later; the last call filtered what the calls before had pushed, which
\* drops all that the earlier filters dropped
Served(delay, work, late, n) ==
    IF n = 0 THEN [requestTimestamps |-> <<>>, clock |-> 0]
    ELSE LET called == (n - 1) * (delay + late + work)
             pushed == [i \in 1..(n - 1) |->
                           sleep((i - 1) * (delay + late + work), delay)
                               + late]
             ended  == sleep(called, delay) + late
         IN  [requestTimestamps |->
                  PushTimestamp(Recent(pushed, called), ended),
              clock |-> ended + work]

\* A RateLimiter of half the default delay or of the default delay that has
\* served `n` calls of a caller working `work` ms between two calls, its
\* timers on time or late; in the run any timer may also fire early
Backlogs == {0, 119, 120}
Delays == {DefaultDelayMs \div 2, DefaultDelayMs}
InitLimiter ==
    /\ \E delay \in Delays, work \in {0, DefaultDelayMs}, n \in Backlogs,
          late \in Jitter \ {-1} :
          /\ delayBetweenRequests = delay
          /\ requestTimestamps
                = Served(delay, work, late, n).requestTimestamps
          /\ clock = Served(delay, work, late, n).clock
    /\ world = Environment({0}, Jitter, 0)
    /\ tpc = "call"
    /\ now = 0
    /\ wakeAt = 0
    /\ callCount = 0
    /\ sent = <<>>
    /\ fpc = "loop"
    /\ cursor = NoText
    /\ allData = <<>>
    /\ pageCount = 0
    /\ reqCursor = NoText
    /\ attempt = 1
    /\ response = NoEnvelope
    /\ returned = Pending
    /\ error = <<>>
    /\ rateLimiterCalls = 0
    /\ pageLog = <<>>
    /\ served = <<>>
    /\ gpc = "start"
    /\ tradesAt = 0
    /\ sortedAt = 0
    /\ cur = 1
    /\ positionsBySymbolAt = 0
    /\ positionsAt = 0
    /\ emissions = <<>>
    /\ opc = "start"
    /\ fillsAt = 0
    /\ orderTradesAt = 0
    /\ runs = 0
    /\ firstRun = NoRun
    /\ heap = <<>>

SpecLimiter == InitLimiter /\ [][NextLimiter]_vars

\* Time advances: a pending timer fires
SpecLimiterFair ==
    /\ InitLimiter
    /\ [][NextLimiter]_vars
    /\ WF_vars(WindowElapsed)
    /\ WF_vars(DelayElapsed)

\* A later fetchAllPages run of a PacificaFetcher, its limiter of the
\* default delay, that has fetched `n` pages answered at once at the first
\* attempt, all timers punctual.  In this run an answer may take its time
\* and a timer fires late or early, each on its own, and the server's
\* script answers the attempts of one page request.
InitPaced ==
    /\ \E n \in Backlogs \ {0} :
          /\ requestTimestamps = [i \in 1..n |-> i * DefaultDelayMs]
          /\ sent = [i \in 1..n |-> i * DefaultDelayMs]
          /\ clock = n * DefaultDelayMs
          /\ world = Environment(Latency, Jitter \ {0}, n + MAX_RETRIES)
    /\ delayBetweenRequests = DefaultDelayMs
    /\ tpc = "call"
    /\ now = 0
    /\ wakeAt = 0
    /\ callCount = 0
    /\ fpc = "loop"
    /\ cursor = NoText
    /\ allData = <<>>
    /\ pageCount = 0
    /\ reqCursor = NoText
    /\ attempt = 1
    /\ response = NoEnvelope
    /\ returned = Pending
    /\ error = <<>>
    /\ rateLimiterCalls = 0
    /\ pageLog = <<>>
    /\ served = <<>>
    /\ gpc = "start"
    /\ tradesAt = 0
    /\ sortedAt = 0
    /\ cur = 1
    /\ positionsBySymbolAt = 0
    /\ positionsAt = 0
    /\ emissions = <<>>
    /\ opc = "start"
    /\ fillsAt = 0
    /\ orderTradesAt = 0
    /\ runs = 0
    /\ firstRun = NoRun
    /\ heap = <<>>

SpecPaced == InitPaced /\ [][NextFetch]_vars

\* groupByOrder on fills of distinct history_ids
InitTrades ==
    /\ \E shapes \in SeqsUpTo(KeyShapes, MaxFills) :
          /\ heap = Given(WithHistoryIds(shapes))
          /\ fillsAt = Len(shapes) + 1
    /\ opc = "start"
    /\ orderTradesAt = 0
    /\ fpc = "loop"
    /\ cursor = NoText
    /\ allData = <<>>
    /\ pageCount = 0
    /\ reqCursor = NoText
    /\ attempt = 1
    /\ response = NoEnvelope
    /\ returned = Pending
    /\ error = <<>>
    /\ rateLimiterCalls = 0
    /\ pageLog = <<>>
    /\ served = <<>>
    /\ gpc = "start"
    /\ tradesAt = 0
    /\ sortedAt = 0
    /\ cur = 1
    /\ positionsBySymbolAt = 0
    /\ positionsAt = 0
    /\ emissions = <<>>
    /\ clock = 0
    /\ tpc = "call"
    /\ now = 0
    /\ requestTimestamps = <<>>
    /\ delayBetweenRequests = DefaultDelayMs
    /\ world = Environment({0}, {0}, 0)
    /\ wakeAt = 0
    /\ callCount = 0
    /\ sent = <<>>
    /\ runs = 0
    /\ firstRun = NoRun

SpecTrades == InitTrades /\ [][NextOrder]_vars

\* groupByOrder on fills of distinct history_ids and various quantities
InitTotals ==
    /\ \E shapes \in SeqsUpTo(TotalShapes, MaxFills) :
          /\ heap = Given(WithHistoryIds(shapes))
          /\ fillsAt = Len(shapes) + 1
    /\ opc = "start"
    /\ orderTradesAt = 0
    /\ fpc = "loop"
    /\ cursor = NoText
    /\ allData = <<>>
    /\ pageCount = 0
    /\ reqCursor = NoText
    /\ attempt = 1
    /\ response = NoEnvelope
    /\ returned = Pending
    /\ error = <<>>
    /\ rateLimiterCalls = 0
    /\ pageLog = <<>>
    /\ served = <<>>
    /\ gpc = "start"
    /\ tradesAt = 0
    /\ sortedAt = 0
    /\ cur = 1
    /\ positionsBySymbolAt = 0
    /\ positionsAt = 0
    /\ emissions = <<>>
    /\ clock = 0
    /\ tpc = "call"
    /\ now = 0
    /\ requestTimestamps = <<>>
    /\ delayBetweenRequests = DefaultDelayMs
    /\ world = Environment({0}, {0}, 0)
    /\ wakeAt = 0
    /\ callCount = 0
    /\ sent = <<>>
    /\ runs = 0
    /\ firstRun = NoRun

SpecTotals == InitTotals /\ [][NextOrder]_vars

\* groupByPosition on entries and exits of one symbol
InitExposure ==
    /\ \E shapes \in SeqsUpTo(ExposureShapes, MaxTrades) :
          /\ heap = Given(MakeTrades(shapes))
          /\ tradesAt = Len(shapes) + 1
    /\ gpc = "start"
    /\ sortedAt = 0
    /\ cur = 1
    /\ positionsBySymbolAt = 0
    /\ positionsAt = 0
    /\ emissions = <<>>
    /\ opc = "start"
    /\ fillsAt = 0
    /\ orderTradesAt = 0
    /\ fpc = "loop"
    /\ cursor = NoText
    /\ allData = <<>>
    /\ pageCount = 0
    /\ reqCursor = NoText
    /\ attempt = 1
    /\ response = NoEnvelope
    /\ returned = Pending
    /\ error = <<>>
    /\ rateLimiterCalls = 0
    /\ pageLog = <<>>
    /\ served = <<>>
    /\ clock = 0
    /\ tpc = "call"
    /\ now = 0
    /\ requestTimestamps = <<>>
    /\ delayBetweenRequests = DefaultDelayMs
    /\ world = Environment({0}, {0}, 0)
    /\ wakeAt = 0
    /\ callCount = 0
    /\ sent = <<>>
    /\ runs = 0
    /\ firstRun = NoRun

SpecExposure == InitExposure /\ [][NextPosition]_vars

\* Two stages run on the same fills, again and again
InitPipeline ==
    /\ \E shapes \in SeqsUpTo(PipelineShapes, MaxFills) :
          /\ heap = Given(WithHistoryIds(shapes))
          /\ fillsAt = Len(shapes) + 1
    /\ opc = "start"
    /\ orderTradesAt = 0
    /\ gpc = "idle"
    /\ tradesAt = 0
    /\ sortedAt = 0
    /\ cur = 1
    /\ positionsBySymbolAt = 0
    /\ positionsAt = 0
    /\ emissions = <<>>
    /\ fpc = "loop"
    /\ cursor = NoText
    /\ allData = <<>>
    /\ pageCount = 0
    /\ reqCursor = NoText
    /\ attempt = 1
    /\ response = NoEnvelope
    /\ returned = Pending
    /\ error = <<>>
    /\ rateLimiterCalls = 0
    /\ pageLog = <<>>
    /\ served = <<>>
    /\ clock = 0
    /\ tpc = "call"
    /\ now = 0
    /\ requestTimestamps = <<>>
    /\ delayBetweenRequests = DefaultDelayMs
    /\ world = Environment({0}, {0}, 0)
    /\ wakeAt = 0
    /\ callCount = 0
    /\ sent = <<>>
    /\ runs = 0
    /\ firstRun = NoRun

SpecPipeline == InitPipeline /\ [][NextPipeline]_vars

\* groupByPosition on trades that differ in price, fee and pnl
InitPrices ==
    /\ \E shapes \in SeqsUpTo(PriceShapes, MaxTrades) :
          /\ heap = Given(MakeTrades(shapes))
          /\ tradesAt = Len(shapes) + 1
    /\ gpc = "start"
    /\ sortedAt = 0
    /\ cur = 1
    /\ positionsBySymbolAt = 0
    /\ positionsAt = 0
    /\ emissions = <<>>
    /\ opc = "start"
    /\ fillsAt = 0
    /\ orderTradesAt = 0
    /\ fpc = "loop"
    /\ cursor = NoText
    /\ allData = <<>>
    /\ pageCount = 0
    /\ reqCursor = NoText
    /\ attempt = 1
    /\ response = NoEnvelope
    /\ returned = Pending
    /\ error = <<>>
    /\ rateLimiterCalls = 0
    /\ pageLog = <<>>
    /\ served = <<>>
    /\ clock = 0
    /\ tpc = "call"
    /\ now = 0
    /\ requestTimestamps = <<>>
    /\ delayBetweenRequests = DefaultDelayMs
    /\ world = Environment({0}, {0}, 0)
    /\ wakeAt = 0
    /\ callCount = 0
    /\ sent = <<>>
    /\ runs = 0
    /\ firstRun = NoRun

SpecPrices == InitPrices /\ [][NextPosition]_vars

\* The two stages on arrays of the caller
InitStages ==
    /\ \E shapes \in SeqsUpTo(StageFillShapes, MaxFills) :
          /\ heap = Given(WithHistoryIds(shapes))
          /\ fillsAt = Len(shapes) + 1
    /\ opc = "start"
    /\ orderTradesAt = 0
    /\ gpc = "idle"
    /\ tradesAt = 0
    /\ sortedAt = 0
    /\ cur = 1
    /\ positionsBySymbolAt = 0
    /\ positionsAt = 0
    /\ emissions = <<>>
    /\ fpc = "loop"
    /\ cursor = NoText
    /\ allData = <<>>
    /\ pageCount = 0
    /\ reqCursor = NoText
    /\ attempt = 1
    /\ response = NoEnvelope
    /\ returned = Pending
    /\ error = <<>>
    /\ rateLimiterCalls = 0
    /\ pageLog = <<>>
    /\ served = <<>>
    /\ clock = 0
    /\ tpc = "call"
    /\ now = 0
    /\ requestTimestamps = <<>>
    /\ delayBetweenRequests = DefaultDelayMs
    /\ world = Environment({0}, {0}, 0)
    /\ wakeAt = 0
    /\ callCount = 0
    /\ sent = <<>>
    /\ runs = 0
    /\ firstRun = NoRun

SpecStages == InitStages /\ [][NextStages]_vars

\* ------------------------------------------------------------------------
\* Properties
\* ------------------------------------------------------------------------
Count(s, x) == Cardinality({i \in 1..Len(s) : s[i] = x})
Transient == {"429", "5xx", "network"}

\* The fills of all emitted trades, and the input fills as FillEvents
EmittedFills == Flatten([i \in 1..Len(orderTrades) |-> orderTrades[i].fills])
InputFillEvents == [i \in 1..Len(fills) |-> toFillEvent(fills[i])]

\* C1: the fills of the trades groupByOrder emits are the input fills, each
\* as many times as it is in the input: none is lost, none is duplicated.
C1_OrderGroupingPartitions ==
    opc = "done" =>
        /\ Len(EmittedFills) = Len(fills)
        /\ \A i \in 1..Len(fills) :
              Count(EmittedFills, InputFillEvents[i])
                  = Count(InputFillEvents, InputFillEvents[i])

C1_Witness ==
    /\ opc = "done"
    /\ Len(fills) = 3
    /\ Len(orderTrades) = 2
    /\ \E i \in 1..2 : orderTrades[i].fill_count = 2
    /\ fills[1].created_at > fills[3].created_at

\* C2: a Position emitted with status 'closed' was emitted while the tracked
\* size of its accumulator had magnitude below 0.0001; every returned
\* Position is one of the emitted ones.
C2_ClosedMeansSizeBelowEpsilon ==
    /\ \A i \in 1..Len(emissions) :
          emissions[i].position.status = "closed"
              => Less(MathAbs(emissions[i].size), EPSILON)
    /\ \A i \in 1..Len(positions) :
          \E j \in 1..Len(emissions) : emissions[j].position = positions[i]

\* A position of three trades was emitted closed at a size that is not 0:
\* 0.0003 - 0.0001 - 0.0001 is 9.999999999999998e-05
C2_Witness ==
    /\ gpc = "done"
    /\ \E i \in 1..Len(emissions) :
          /\ emissions[i].position.status = "closed"
          /\ ~IsZero(emissions[i].size)
          /\ emissions[i].position.trade_count = 3

\* C3: a completed run returns the concatenation of the data of the pages
\* served, in page order; the page with the empty or absent next_cursor is
\* the last one served and nothing is requested after it.
ServedData == Flatten([i \in 1..Len(served) |-> served[i].data])

C3_PagerReturnsConcatenation ==
    /\ fpc = "done" =>
          /\ returned = [state |-> "resolved", value |-> ServedData]
          /\ served # <<>>
          /\ ~Truthy(Last(served).next_cursor)
          /\ rateLimiterCalls = Len(served)
          /\ ~ENABLED NextFetch
    /\ \A i \in 1..Len(served) :
          ~Truthy(served[i].next_cursor)
              => i = Len(served) /\ fpc \in {"page", "done"}

C3_Witness ==
    /\ fpc = "done"
    /\ Len(served) = 3
    /\ served[1].data = <<"r2", "r3">>
    /\ served[2].data = <<"r1">>
    /\ served[3].data = <<"r2", "r3">>
    /\ served[3].next_cursor = <<>>

\* After three 429 answers in a row the call is in the sleep of the third,
\* or has raised the rate-limit error
ThreeAttemptsAtMost ==
    /\ Len(pageLog) <= 3
    /\ attempt <= 3
    /\ (Len(pageLog) = 3 /\ \A i \in 1..3 : pageLog[i].class = "429")
          => /\ fpc \in {"sleep", "error"}
             /\ fpc = "error" => error = RateLimitError

\* The sleep after the answer to a third attempt ends in the error
ThirdSleepRaises ==
    (fpc = "sleep" /\ attempt = 3) => fpc' = "error"

\* C4: one page request makes at most 3 HTTP attempts; three 429 answers in
\* a row raise the rate-limit error and no fourth attempt is made.
C4_AtMostThreeAttempts == []ThreeAttemptsAtMost /\ [][ThirdSleepRaises]_vars

C4_Witness ==
    /\ Len(pageLog) = 3
    /\ \A i \in 1..3 : pageLog[i].class = "429"
    /\ fpc = "error"

\* C5: k = 0, 1 or 2 transient failures do not end the call, and when a 200
\* answer follows them fetchWithRetry returns its envelope after k + 1
\* attempts and k backoff sleeps, one after each failure.
C5_TransientThenOk ==
    /\ (fpc = "error" /\ Last(pageLog).class \in Transient)
          => Len(pageLog) = 3
    /\ fpc = "page" =>
          /\ Last(pageLog).class = "ok"
          /\ response = Last(pageLog).env
          /\ Last(pageLog).waits = <<>>
          /\ Len(pageLog) = attempt
          /\ \A i \in 1..(Len(pageLog) - 1) :
                /\ pageLog[i].attempt = i
                /\ Len(pageLog[i].waits) = 1

C5_Witness ==
    /\ fpc = "page"
    /\ Len(pageLog) = 3
    /\ pageLog[1].class = "429"
    /\ pageLog[2].class = "429"
    /\ response.success
    /\ response.data = <<"r1">>

\* C6: an answer whose status is neither success, 429 nor 5xx is not
\* retried, whatever its body: it is the last attempt, no sleep follows it,
\* and the error raised carries the status and the body.
C6_OtherStatusFailsImmediately ==
    \A i \in 1..Len(pageLog) :
        pageLog[i].class = "status" =>
            /\ i = Len(pageLog)
            /\ pageLog[i].waits = <<>>
            /\ fpc = "error"
            /\ error = HttpError(pageLog[i].status, pageLog[i].body)

\* C7: a 200 answer whose envelope has success = false is not retried: it is
\* the last attempt, no sleep follows it, and fetchAllPages rejects with the
\* application error and no data, requesting no further page.
C7_SuccessFalseNotRetried ==
    \A i \in 1..Len(pageLog) :
        (pageLog[i].class = "ok" /\ ~pageLog[i].env.success) =>
            /\ i = Len(pageLog)
            /\ pageLog[i].waits = <<>>
            /\ fpc \in {"page", "error"}
            /\ fpc = "error" =>
                  /\ error = ApiErrorPrefix \o
                        (IF pageLog[i].env.error = InvalidText
                         THEN InvalidText ELSE UnknownError)
                  /\ returned.state = "rejected"
                  /\ returned.value = <<>>
                  /\ rateLimiterCalls = pageCount + 1
                  /\ ~ENABLED NextFetch

C7_Witness ==
    /\ fpc = "error"
    /\ Len(pageLog) = 2
    /\ pageLog[1].class = "5xx"
    /\ pageLog[2].class = "ok"
    /\ pageLog[2].env.data = <<"r1">>
    /\ ~pageLog[2].env.success
    /\ allData # <<>>

\* C8: the message of the error raised tells the failure class of the last
\* answer: 429 exhaustion, 5xx exhaustion and network exhaustion have
\* messages that differ from one another, from the error of a non-retryable
\* status and from the application error; a transient class is raised only
\* once the three attempts are used up.
ErrorClassOf(msg) ==
    CASE StartsWith(msg, <<"R", "a", "t", "e", " ">>) -> "429"
      [] StartsWith(msg, <<"S", "e", "r", "v", "e", "r", " ">>) -> "5xx"
      [] StartsWith(msg, <<"f", "e", "t", "c", "h", " ">>) -> "network"
      [] StartsWith(msg, <<"H", "T", "T", "P", " ">>) -> "status"
      [] StartsWith(msg, <<"A", "P", "I", " ">>) -> "ok"
      [] StartsWith(msg, <<"U", "n", "e", "x", "p", "e", "c", "t", "e", "d",
                           " ">>) -> "json"
      [] StartsWith(msg, <<"\"">>) -> "json"
      [] OTHER -> "none"

C8_ErrorTellsFailureClass ==
    fpc = "error" =>
        /\ ErrorClassOf(error) = Last(pageLog).class
        /\ Last(pageLog).class \in Transient => Len(pageLog) = 3
        /\ Last(pageLog).class = "5xx"
              => SubSeq(error, 14, 16) = StatusText(Last(pageLog).status)

C8_Witness ==
    /\ fpc = "error"
    /\ Len(pageLog) = 3
    /\ pageLog[1].class = "429"
    /\ pageLog[2].class = "network"
    /\ pageLog[3].class = "5xx"
    /\ pageLog[3].status = 503

\* C9: when a page fails terminally the run rejects: its caller gets none of
\* the data of the earlier pages, and no later page is requested.
C9_TerminalFailureAborts ==
    fpc = "error" =>
        /\ returned.state = "rejected"
        /\ returned.value = <<>>
        /\ rateLimiterCalls = pageCount + 1
        /\ ~ENABLED NextFetch

C9_Witness ==
    /\ fpc = "error"
    /\ pageCount = 1
    /\ Len(allData) >= 2
    /\ Last(pageLog).class = "network"

\* C10: the sleep made before a retry is 2^n seconds after a 429, n seconds
\* after a 5xx and n seconds after a network failure, n the attempt number.
RetryFollows(i) ==
    \/ i < Len(pageLog)
    \/ fpc \in {"fetch", "backoff"}
    \/ fpc = "sleep" /\ attempt < 3

C10_BackoffByClass ==
    \A i \in 1..Len(pageLog) :
        RetryFollows(i) =>
            /\ pageLog[i].attempt = i
            /\ pageLog[i].class = "429" => pageLog[i].waits = <<(2 ^ i) * 1000>>
            /\ pageLog[i].class = "5xx" => pageLog[i].waits = <<i * 1000>>
            /\ pageLog[i].class = "network" => pageLog[i].waits = <<i * 1000>>

C10_Witness ==
    /\ Len(pageLog) = 3
    /\ pageLog[1].class = "network"
    /\ pageLog[2].class = "429"
    /\ pageLog[2].waits = <<4000>>
    /\ pageLog[3].class = "ok"

\* C11: in fetchAllPages every page request, the first and every
\* cursor-following one, is preceded by one completed waitIfNeeded() call of
\* its own, made after the previous page was processed: while a page is being
\* requested or processed the limiter has completed one call more than there
\* are processed pages, and between pages exactly as many.
C11_LimiterBeforeEveryPage ==
    /\ fpc \in {"fetch", "text", "json", "sleep", "backoff", "page", "error"}
          => rateLimiterCalls = pageCount + 1
    /\ fpc \in {"loop", "window", "delay", "done"}
          => rateLimiterCalls = pageCount
    /\ Len(requestTimestamps) = rateLimiterCalls

\* A cursor-following page request is under way, after its own limiter call
C11_Witness ==
    /\ fpc = "fetch"
    /\ pageCount >= 1
    /\ reqCursor # NoText
    /\ rateLimiterCalls = pageCount + 1

\* How many of the times of s lie within the minute that ends at its last
InLastMinute(s) ==
    Cardinality({i \in 1..Len(s) : s[i] > Last(s) - OneMinute})

C14_FixedDelayBeforeEveryTimestamp ==
    /\ tpc = "delay" => wakeAt = clock + delayBetweenRequests
    /\ tpc = "after"
          => Last(requestTimestamps) >= now + delayBetweenRequests
    /\ \A i \in 1..(Len(requestTimestamps) - 1) :
          requestTimestamps[i + 1] - requestTimestamps[i]
              >= delayBetweenRequests

\* C14, to the precision of the timer: every waitIfNeeded call, whether or
\* not it waited for the window first, begins a timer of the fixed delay
\* and records its timestamp when that timer has fired, which is no more
\* than 1 ms before the delay has passed on Date.now(); the recorded
\* timestamp is at least the delay less 1 ms after the call began, and any
\* two consecutive recorded timestamps are at least the delay less 1 ms
\* apart.
C14_FixedDelayToTimerPrecision ==
    /\ tpc = "delay" => wakeAt = clock + delayBetweenRequests
    /\ tpc = "after"
          => Last(requestTimestamps) >= now + delayBetweenRequests - 1
    /\ \A i \in 1..(Len(requestTimestamps) - 1) :
          requestTimestamps[i + 1] - requestTimestamps[i]
              >= delayBetweenRequests - 1

\* A call of the default delay that waited for the window and then the
\* delay, and whose delay timer fired 1 ms early
C14_Witness ==
    /\ tpc = "after"
    /\ delayBetweenRequests = DefaultDelayMs
    /\ Len(requestTimestamps) > maxRequestsPerMinute
    /\ Last(requestTimestamps) >= now + 2 * delayBetweenRequests - 2
    /\ Last(requestTimestamps) = wakeAt - 1

\* A step of a waitIfNeeded call that has begun: it ends in the call or at
\* its return, and records one timestamp exactly when it returns
StepOfCall ==
    tpc \in {"window", "delay"}
        => /\ tpc' \in {"window", "delay", "after"}
           /\ requestTimestamps'
                 = IF tpc' = "after"
                   THEN Append(requestTimestamps, clock')
                   ELSE requestTimestamps

\* C15: waitIfNeeded has no error outcome and does not suspend for ever:
\* provided time advances, a call that has begun completes, and between its
\* beginning and its completion it records exactly one timestamp, at its
\* completion.
C15_CallCompletesWithOneTimestamp ==
    /\ (tpc \in {"window", "delay"}) ~> (tpc = "after")
    /\ [][StepOfCall]_vars

\* A call of a limiter of half the default delay that was suspended for
\* half a minute, the window being full, has completed and recorded its
\* timestamp
C15_Witness ==
    /\ tpc = "after"
    /\ delayBetweenRequests < DefaultDelayMs
    /\ Last(requestTimestamps) >= now + OneMinute \div 2
    /\ Last(requestTimestamps) = clock

\* The input fill of a given history_id, where history_ids are distinct
InputFill(h) == fills[CHOOSE i \in 1..Len(fills) : fills[i].history_id = h]

\* The input fills of history_ids g and h are fills of one emitted trade
SameTrade(g, h) ==
    \E t \in 1..Len(orderTrades) :
       \E a, b \in 1..orderTrades[t].fill_count :
          /\ orderTrades[t].fills[a].history_id = g
          /\ orderTrades[t].fills[b].history_id = h

\* C16: with distinct history_ids, two input fills are fills of the same
\* trade if and only if both carry an order_id and the two are equal; every
\* fill is in a trade, and a fill without order_id is the only fill of a
\* trade keyed by its history_id.
C16_SameTradeIffSameOrderId ==
    opc = "done" =>
        /\ \A i, j \in 1..Len(fills) :
              i # j =>
                 (SameTrade(fills[i].history_id, fills[j].history_id)
                    <=> /\ fills[i].order_id # <<>>
                        /\ fills[i].order_id = fills[j].order_id)
        /\ \A i \in 1..Len(fills) :
              /\ SameTrade(fills[i].history_id, fills[i].history_id)
              /\ fills[i].order_id = <<>> =>
                    \E t \in 1..Len(orderTrades) :
                       /\ orderTrades[t].trade_id
                             = [single |-> TRUE, id |-> fills[i].history_id]
                       /\ orderTrades[t].fill_count = 1
                       /\ orderTrades[t].fills[1].history_id
                             = fills[i].history_id

\* Two fills of one order, apart in the input, and a fill without order_id
C16_Witness ==
    /\ opc = "done"
    /\ Len(fills) = 3
    /\ fills[1].order_id = <<7>>
    /\ fills[2].order_id = <<>>
    /\ fills[3].order_id = <<7>>
    /\ Len(orderTrades) = 2

RECURSIVE SumSeq(_)
SumSeq(ns) == IF ns = <<>> THEN 0 ELSE Head(ns) + SumSeq(Tail(ns))

\* The amounts and fees of the fills of a trade in counts of 1e-8 and their
\* pnl values in counts of 1e-6, an absent one as 0
AmountsOf(t) ==
    [i \in 1..Len(t.fills) |-> Units(t.fills[i].amount, AmountDigits)]
FeesOf(t) ==
    [i \in 1..Len(t.fills) |->
        IF t.fills[i].fee = <<>> THEN 0
        ELSE Units(t.fills[i].fee[1], AmountDigits)]
PnlsOf(t) ==
    [i \in 1..Len(t.fills) |->
        IF t.fills[i].pnl = <<>> THEN 0
        ELSE Units(t.fills[i].pnl[1], PnlDigits)]

\* C17: for every emitted trade, total_amount is the sum of the amounts of
\* its fills, total_fee the sum of their fees and total_pnl the sum of their
\* pnl values, an absent fee or pnl counted as 0.
C17_TotalsAreSums ==
    \A t \in 1..Len(orderTrades) :
       /\ Units(orderTrades[t].total_amount, AmountDigits)
             = SumSeq(AmountsOf(orderTrades[t]))
       /\ Units(orderTrades[t].total_fee, AmountDigits)
             = SumSeq(FeesOf(orderTrades[t]))
       /\ Units(orderTrades[t].total_pnl, PnlDigits)
             = SumSeq(PnlsOf(orderTrades[t]))

\* A trade of three fills, of which one has no fee and another no pnl
C17_Witness ==
    /\ opc = "done"
    /\ \E t \in 1..Len(orderTrades) :
          /\ orderTrades[t].fill_count = 3
          /\ \E a, b \in 1..3 :
                /\ orderTrades[t].fills[a].fee = <<>>
                /\ orderTrades[t].fills[b].pnl = <<>>
          /\ Units(orderTrades[t].total_fee, AmountDigits) > 0
          /\ Units(orderTrades[t].total_pnl, PnlDigits) < 0
          /\ Units(orderTrades[t].total_amount, AmountDigits) > 0

\* The decimal arithmetic the statement is about, done exactly on natural
\* numbers of any size: the count of 10^-f a numeral stands for, the sum of
\* counts and the distance of two
Exact(text, f) ==
    BigOfDigits(text.whole \o text.part
                    \o [i \in 1..(f - Len(text.part)) |-> 0])

RECURSIVE BigSum(_)
BigSum(ns) == IF ns = <<>> THEN <<>> ELSE BigAdd(Head(ns), BigSum(Tail(ns)))

BigGap(a, b) == IF BigCmp(a, b) >= 0 THEN BigSub(a, b) ELSE BigSub(b, a)

\* The sum of the amounts of the fills of a trade, in counts of 1e-8, and
\* the sum of their amount * price, in counts of 1e-14
AmountOf(t) ==
    BigSum([i \in 1..Len(t.fills) |-> Exact(t.fills[i].amount, AmountDigits)])
ValueOf(t) ==
    BigSum([i \in 1..Len(t.fills) |->
               BigMul(Exact(t.fills[i].amount, AmountDigits),
                      Exact(t.fills[i].price, PnlDigits))])

\* The average_price and the total_value written, in counts of 1e-14 of
\* average * amount and of value
AverageTimesAmount(t) == BigMul(Exact(t.average_price, PnlDigits), AmountOf(t))
WrittenValue(t) ==
    BigMul(Exact(t.total_value, ValueDigits),
           BigPow10(AmountDigits + PnlDigits - ValueDigits))

\* Half of the last digit of total_value, in counts of 1e-14, doubled
Cent == BigPow10(AmountDigits + PnlDigits - ValueDigits)

C19_TradeShape ==
    \A t \in 1..Len(orderTrades) :
       LET tr == orderTrades[t]
       IN  /\ tr.fill_count = Len(tr.fills)
           /\ tr.fill_count >= 1
           /\ \A a, b \in 1..Len(tr.fills) :
                 a < b => tr.fills[a].created_at <= tr.fills[b].created_at
           /\ tr.first_fill_time = tr.fills[1].created_at
           /\ tr.last_fill_time = tr.fills[Len(tr.fills)].created_at
           /\ tr.first_fill_time <= tr.last_fill_time
           /\ tr.side = InputFill(tr.fills[1].history_id).side
           /\ tr.symbol = InputFill(tr.fills[1].history_id).symbol

\* A trade whose earliest fill is the last of the input and differs in side
\* and symbol from the others
C19_Witness ==
    /\ opc = "done"
    /\ Len(fills) = 3
    /\ Len(orderTrades) = 1
    /\ orderTrades[1].fills[1].history_id = 3
    /\ orderTrades[1].first_fill_time < orderTrades[1].last_fill_time
    /\ fills[1].side # fills[3].side
    /\ fills[1].symbol # fills[3].symbol

\* C20: a Position's status reflects the exposure at the end of processing:
\* a Position emitted 'open' has a tracked size of magnitude at least 0.0001
\* at the end of the stream, and an accumulator whose exposure is back at
\* zero is emitted 'closed'.
C20_StatusReflectsExposure ==
    gpc = "done" =>
        \A i \in 1..Len(emissions) :
           /\ emissions[i].position.status = "open"
                 => ~Less(MathAbs(emissions[i].size), EPSILON)
           /\ Less(MathAbs(emissions[i].size), EPSILON)
                 => emissions[i].position.status = "closed"


\* ------------------------------------------------------------------------
\* C21: groupByOrder followed by groupByPosition is deterministic: a second
\* run of the same TradeGrouper on the same fills returns the trade list and
\* the position list of the first run, which left nothing behind that
\* alters it
\* ------------------------------------------------------------------------
C21_SecondRunAgrees ==
    /\ (runs >= 1 /\ opc = "done") => orderTrades = firstRun.trades
    /\ (runs >= 1 /\ gpc = "done") => positions = firstRun.positions

\* A second run has finished with a closed and an open position, the first
\* run having left an accumulator in its map
C21_Witness ==
    /\ runs >= 1
    /\ gpc = "done"
    /\ positionsBySymbol # <<>>
    /\ Len(orderTrades) >= 2
    /\ fills[1].created_at > fills[2].created_at
    /\ \E i \in 1..Len(positions) : positions[i].status = "closed"
    /\ \E i \in 1..Len(positions) : positions[i].status = "open"


\* The trade the loop of groupByPosition is at is an exit for a symbol that
\* has no accumulator
UnmatchedClose ==
    /\ gpc = "loop"
    /\ cur <= Len(sorted)
    /\ ~IsOpen(sorted[cur].side)
    /\ IsClose(sorted[cur].side)
    /\ ~MapHas(positionsBySymbol, sorted[cur].symbol)

\* What the step on an unmatched exit does
UnmatchedCloseStep ==
    UnmatchedClose =>
        /\ cur' = cur + 1
        /\ gpc' = "loop"
        /\ Len(positions') = Len(positions) + 1
        /\ positions' = Append(positions, Last(positions'))
        /\ Last(positions').status = "closed"
        /\ Last(positions').trades = <<sorted[cur]>>
        /\ Last(positions').symbol = sorted[cur].symbol
        /\ ~MapHas(positionsBySymbol', sorted[cur].symbol)
        /\ positionsBySymbol' = positionsBySymbol

\* ------------------------------------------------------------------------
\* C23: an exit trade for a symbol without an accumulator is processed like
\* any other trade: the step adds exactly one position, closed, holding
\* that trade alone, and leaves no accumulator for the symbol
\* ------------------------------------------------------------------------
C23_UnmatchedCloseEmitsClosed == [][UnmatchedCloseStep]_vars

\* An unmatched exit of more than the epsilon has just been processed, next
\* to the accumulator of another symbol
C23_Witness ==
    /\ gpc = "loop"
    /\ cur > 1
    /\ IsClose(sorted[cur - 1].side)
    /\ ~Less(TradeAmount(sorted[cur - 1]), EPSILON)
    /\ positions # <<>>
    /\ Last(positions).trades = <<sorted[cur - 1]>>
    /\ Last(positions).status = "closed"
    /\ positionsBySymbol # <<>>
    /\ ~MapHas(positionsBySymbol, sorted[cur - 1].symbol)


\* ------------------------------------------------------------------------
\* C26: the list groupByPosition returns is ordered by opened_at, latest
\* first: no position is followed by one that opened later
\* ------------------------------------------------------------------------
C26_ReturnedLatestFirst ==
    gpc = "done" =>
        \A i \in 1..Len(positions) : \A j \in 1..Len(positions) :
            i < j => positions[i].opened_at >= positions[j].opened_at

\* The list returned has a position that opened later in front of one that
\* was emitted before it
C26_Witness ==
    /\ gpc = "done"
    /\ Len(positions) >= 2
    /\ positions[1].opened_at > positions[2].opened_at
    /\ emissions[1].position.opened_at < emissions[2].position.opened_at


\* ------------------------------------------------------------------------
\* C27: after the update for any trade, entry or exit, an accumulator whose
\* size has magnitude below 0.0001 is emitted closed and deleted: between
\* two trades and at the end of the stream the map holds no accumulator of
\* size below 0.0001 in magnitude
\* ------------------------------------------------------------------------
C27_NoAccumulatorBelowEpsilon ==
    gpc \in {"loop", "done"} =>
        \A i \in 1..Len(positionsBySymbol) :
            ~Less(MathAbs(positionsBySymbol[i].value.size), EPSILON)


\* The loop of groupByPosition is at a trade
AtTrade == gpc = "loop" /\ cur <= Len(sorted)

\* A step of the loop keeps the direction and the start time of every
\* accumulator it does not delete
AccumulatorsKeepOrigin ==
    (gpc = "loop" /\ gpc' = "loop") =>
        \A i \in 1..Len(positionsBySymbol) :
            MapHas(positionsBySymbol', positionsBySymbol[i].key) =>
                LET old == positionsBySymbol[i].value
                    new == MapGet(positionsBySymbol', positionsBySymbol[i].key)
                IN  /\ new.direction = old.direction
                    /\ new.startTime = old.startTime

\* An entry for a symbol without an accumulator creates one of the trade's
\* direction and first-fill time, whose size is the trade's amount added to 0
EntryCreatesAccumulator ==
    (AtTrade /\ IsOpen(sorted[cur].side)
       /\ ~MapHas(positionsBySymbol, sorted[cur].symbol)) =>
        /\ MapHas(positionsBySymbol', sorted[cur].symbol)
        /\ LET new == MapGet(positionsBySymbol', sorted[cur].symbol)
           IN  /\ new.direction = Direction(sorted[cur].side)
               /\ new.startTime = sorted[cur].first_fill_time
               /\ new.size = Plus(Number(0), TradeAmount(sorted[cur]))
               /\ new.entryTrades = <<sorted[cur]>>

\* A position emitted closed has the direction and the start time its
\* accumulator had before the exit that closed it
ClosedCarriesOrigin ==
    (AtTrade /\ MapHas(positionsBySymbol, sorted[cur].symbol)
       /\ Len(positions') = Len(positions) + 1) =>
        LET old == MapGet(positionsBySymbol, sorted[cur].symbol)
        IN  /\ Last(positions').direction = old.direction
            /\ Last(positions').opened_at = old.startTime

\* A position emitted open has the direction and the start time of its
\* accumulator
OpenCarriesOrigin ==
    (gpc = "loop" /\ gpc' = "done") =>
        \A i \in 1..Len(positionsBySymbol) :
            \E j \in 1..Len(positions') :
                /\ positions'[j].status = "open"
                /\ positions'[j].symbol = positionsBySymbol[i].key
                /\ positions'[j].direction = positionsBySymbol[i].value.direction
                /\ positions'[j].opened_at = positionsBySymbol[i].value.startTime

\* The position of an unmatched exit has the direction and the first-fill
\* time of that exit
UnmatchedCarriesOrigin ==
    (UnmatchedClose /\ Len(positions') = Len(positions) + 1) =>
        /\ Last(positions').direction = Direction(sorted[cur].side)
        /\ Last(positions').opened_at = sorted[cur].first_fill_time

OriginStep ==
    /\ AccumulatorsKeepOrigin
    /\ EntryCreatesAccumulator
    /\ UnmatchedCarriesOrigin
    /\ ClosedCarriesOrigin
    /\ OpenCarriesOrigin

\* ------------------------------------------------------------------------
\* C28: the direction and the start time of an accumulator are those of the
\* trade that created it (an entry creates it at size 0 and adds its
\* amount); no later trade of the symbol changes them, one of the opposite
\* direction included, and the position emitted carries them as direction
\* and opened_at
\* ------------------------------------------------------------------------
C28_OriginIsFixed == [][OriginStep]_vars

\* A long position has been returned that holds a short trade with a later
\* first-fill time than the position's opened_at
C28_Witness ==
    /\ gpc = "done"
    /\ \E i \in 1..Len(positions) :
          /\ positions[i].direction = "long"
          /\ \E j \in 1..Len(positions[i].trades) :
                /\ Direction(positions[i].trades[j].side) = "short"
                /\ positions[i].trades[j].first_fill_time > positions[i].opened_at


\* The indices of the open positions of a symbol in the returned list
OpenOf(symbol) ==
    {j \in 1..Len(positions) :
        positions[j].status = "open" /\ positions[j].symbol = symbol}

\* ------------------------------------------------------------------------
\* C29: at the end of the stream every symbol that still has an accumulator
\* yields exactly one position, of status 'open', made of the accumulator's
\* trades; its closed_at is the last-fill time of its last exit trade when
\* it has exit trades and its opened_at when it has none; no other position
\* is open
\* ------------------------------------------------------------------------
C29_OneOpenPerAccumulator ==
    gpc = "done" =>
        /\ \A i \in 1..Len(positionsBySymbol) :
              LET acc == positionsBySymbol[i].value
              IN  /\ Cardinality(OpenOf(positionsBySymbol[i].key)) = 1
                  /\ \A j \in OpenOf(positionsBySymbol[i].key) :
                        /\ positions[j].trades = acc.entryTrades \o acc.exitTrades
                        /\ positions[j].opened_at = acc.startTime
                        /\ positions[j].closed_at =
                              IF acc.exitTrades # <<>>
                              THEN Last(acc.exitTrades).last_fill_time
                              ELSE positions[j].opened_at
        /\ \A j \in 1..Len(positions) :
              positions[j].status = "open"
                 => MapHas(positionsBySymbol, positions[j].symbol)

\* Two symbols end the stream with an accumulator, one without exit
\* trades and one whose last exit trade began after the start and was
\* filled over some time
C29_Witness ==
    /\ gpc = "done"
    /\ Len(positionsBySymbol) = 2
    /\ \E j \in 1..Len(positions) :
          /\ positions[j].status = "open"
          /\ positions[j].closed_at > positions[j].opened_at
          /\ positions[j].closed_at > Last(positions[j].trades).first_fill_time
    /\ \E i \in 1..Len(positionsBySymbol) :
          positionsBySymbol[i].value.exitTrades = <<>>


\* The elements of a list of trades or positions that are of a symbol, in
\* the order they have
OfSymbol(s, symbol) == SelectSeq(s, LAMBDA x : x.symbol = symbol)

\* The positions returned for a symbol are those groupByPosition returns
\* for the trades of that symbol alone, and the list returned is the one
\* the function of the trades gives
Returned(h, a) ==
    LET call == groupByPosition(h, a) IN PositionsOf(call.heap, call.at)

PositionsPerSymbol ==
    gpc = "done" =>
        /\ positions = Returned(heap, tradesAt)
        /\ \A symbol \in Symbols :
              OfSymbol(positions, symbol)
                 = Returned(Append(heap,
                                SelectSeq(heap[tradesAt],
                                          LAMBDA t : heap[t].symbol = symbol)),
                            Len(heap) + 1)

\* A step of the loop leaves the accumulators of the symbols other than the
\* trade's as they are
OtherAccumulatorsKept ==
    AtTrade =>
        \A i \in 1..Len(positionsBySymbol) :
            positionsBySymbol[i].key # sorted[cur].symbol =>
                /\ MapHas(positionsBySymbol', positionsBySymbol[i].key)
                /\ MapGet(positionsBySymbol', positionsBySymbol[i].key)
                      = positionsBySymbol[i].value

\* ------------------------------------------------------------------------
\* C25: the symbols are tracked independently: processing a trade leaves
\* the accumulator of every other symbol unchanged, and the positions
\* returned for a symbol from a mixed stream are those returned when only
\* the trades of that symbol are processed, in the same relative order
\* ------------------------------------------------------------------------
C25_SymbolsIndependent == [][OtherAccumulatorsKept]_vars /\ []PositionsPerSymbol

\* Three trades have been processed, the trade of a second symbol between
\* an entry and the exit that closed its position, and both symbols have a
\* position in the list returned
C25_Witness ==
    /\ gpc = "done"
    /\ Len(sorted) = 3
    /\ sorted[1].symbol # sorted[2].symbol
    /\ sorted[3].symbol = sorted[1].symbol
    /\ Len(positions) = 2
    /\ positions[1].symbol # positions[2].symbol
    /\ \E j \in 1..2 : positions[j].status = "closed" /\ positions[j].trade_count = 2
    /\ \E j \in 1..2 : positions[j].status = "open"


\* The loop is at a close_long of amount a > 0 for a symbol whose
\* accumulator was created by an open_long of the same amount and holds
\* that trade alone
RoundTripCloses ==
    /\ AtTrade
    /\ sorted[cur].side = CloseLong
    /\ Units(sorted[cur].total_amount, AmountDigits) > 0
    /\ MapHas(positionsBySymbol, sorted[cur].symbol)
    /\ LET acc == MapGet(positionsBySymbol, sorted[cur].symbol)
       IN  /\ Len(acc.entryTrades) = 1
           /\ acc.exitTrades = <<>>
           /\ acc.entryTrades[1].side = OpenLong
           /\ acc.entryTrades[1].total_amount = sorted[cur].total_amount

\* The step that closes a round trip adds one closed position made of the
\* two trades and deletes the accumulator
RoundTripStep ==
    RoundTripCloses =>
        LET open == MapGet(positionsBySymbol, sorted[cur].symbol).entryTrades[1]
            close == sorted[cur]
        IN  /\ Len(positions') = Len(positions) + 1
            /\ positions' = Append(positions, Last(positions'))
            /\ Last(positions').symbol = close.symbol
            /\ Last(positions').status = "closed"
            /\ Last(positions').trades = <<open, close>>
            /\ Last(positions').entry_price = open.average_price
            /\ Last(positions').exit_price = <<close.average_price>>
            /\ Units(Last(positions').total_pnl, PnlDigits)
                  = Units(open.total_pnl, PnlDigits)
                       + Units(close.total_pnl, PnlDigits)
            /\ ~MapHas(positionsBySymbol', close.symbol)

\* ------------------------------------------------------------------------
\* C22: simple round trip: an open_long of amount a for a symbol without an
\* accumulator, followed by a close_long of the same amount, gives exactly
\* one position for the symbol: closed, holding both trades, its entry
\* price the open trade's, its exit price the close trade's, its total_pnl
\* the sum of the two trades' pnl; no accumulator remains
\* ------------------------------------------------------------------------
C22_RoundTripClosesOnePosition == [][RoundTripStep]_vars

\* A round trip bought at 100 and sold at 110 with a pnl of 10 has been
\* returned as the only position
C22_Witness ==
    /\ gpc = "done"
    /\ Len(trades) = 2
    /\ Len(positions) = 1
    /\ positionsBySymbol = <<>>
    /\ positions[1].status = "closed"
    /\ positions[1].trade_count = 2
    /\ positions[1].direction = "long"
    /\ positions[1].entry_price = Price100
    /\ positions[1].exit_price = <<Price110>>
    /\ positions[1].total_pnl = Pnl10


\* ------------------------------------------------------------------------
\* C24: dangling open: a symbol whose only trade is an open_long gives
\* exactly one position, of status 'open', with exit_price 'N/A' and
\* pnl_percentage 'N/A'
\* ------------------------------------------------------------------------
C24_DanglingOpenIsOpen ==
    gpc = "done" =>
        \A symbol \in Symbols :
            (/\ Len(OfSymbol(trades, symbol)) = 1
             /\ OfSymbol(trades, symbol)[1].side = OpenLong) =>
                /\ Len(OfSymbol(positions, symbol)) = 1
                /\ OfSymbol(positions, symbol)[1].status = "open"
                /\ OfSymbol(positions, symbol)[1].trades = OfSymbol(trades, symbol)
                /\ OfSymbol(positions, symbol)[1].exit_price = <<>>
                /\ OfSymbol(positions, symbol)[1].pnl_percentage = <<>>

\* The only trade of a symbol was an open_long, between the trades of a
\* round trip on another symbol, and the list has been returned
C24_Witness ==
    /\ gpc = "done"
    /\ Len(trades) = 3
    /\ Len(OfSymbol(trades, "ETH")) = 1
    /\ Len(positions) = 2
    /\ \E j \in 1..2 :
          /\ positions[j].symbol = "ETH"
          /\ positions[j].status = "open"
          /\ positions[j].exit_price = <<>>
          /\ positions[j].entry_price = Price100
    /\ \E j \in 1..2 : positions[j].symbol = "BTC" /\ positions[j].status = "closed"


\* The entry and the exit trades of a position
EntriesOf(p) == SelectSeq(p.trades, LAMBDA t : IsOpen(t.side))
ExitsOf(p) == SelectSeq(p.trades, LAMBDA t : ~IsOpen(t.side) /\ IsClose(t.side))

\* The arithmetic the statement is about, done exactly: the fraction n / d
\* in lowest terms, d > 0
RECURSIVE Gcd(_, _)
Gcd(a, b) == IF b = 0 THEN a ELSE Gcd(b, a % b)

Ratio(n, d) ==
    LET g == Gcd(Abs(n), d)
    IN  [n |-> n \div g, d |-> d \div g]

RAdd(a, b) ==
    LET g == Gcd(a.d, b.d)
    IN  Ratio(a.n * (b.d \div g) + b.n * (a.d \div g), (a.d \div g) * b.d)

RSub(a, b) == RAdd(a, [n |-> 0 - b.n, d |-> b.d])

RMul(a, b) ==
    LET g1 == Gcd(Abs(a.n), b.d)
        g2 == Gcd(Abs(b.n), a.d)
    IN  Ratio((a.n \div g1) * (b.n \div g2), (a.d \div g2) * (b.d \div g1))

\* a / b, for b > 0
RDiv(a, b) == RMul(a, [n |-> b.d, d |-> b.n])

\* The count of 10^-k nearest to the fraction x, a half away from zero
NearestCount(x, k) ==
    LET y == RMul(x, Ratio(10^k, 1))
        c == (2 * Abs(y.n) + y.d) \div (2 * y.d)
    IN  IF y.n >= 0 THEN c ELSE 0 - c

\* The sum of the amounts of trades and of their amount * average price
RECURSIVE AmountSum(_)
AmountSum(ts) ==
    IF ts = <<>> THEN Ratio(0, 1)
    ELSE RAdd(Ratio(Units(Head(ts).total_amount, AmountDigits), 10^AmountDigits),
              AmountSum(Tail(ts)))

RECURSIVE ValueSum(_)
ValueSum(ts) ==
    IF ts = <<>> THEN Ratio(0, 1)
    ELSE RAdd(RMul(Ratio(Units(Head(ts).total_amount, AmountDigits),
                         10^AmountDigits),
                   Ratio(Units(Head(ts).average_price, PnlDigits),
                         10^PnlDigits)),
              ValueSum(Tail(ts)))

\* The price of trades: their value by their amount, and 0 for no amount
AveragePriceOf(ts) ==
    IF AmountSum(ts).n > 0 THEN RDiv(ValueSum(ts), AmountSum(ts))
    ELSE Ratio(0, 1)

\* The relative move from the entry to the exit price in percent, signed by
\* the direction, to two digits
RelativeMove(p) ==
    LET entry == AveragePriceOf(EntriesOf(p))
        exit  == AveragePriceOf(ExitsOf(p))
        move  == IF p.direction = "long"
                 THEN RSub(exit, entry) ELSE RSub(entry, exit)
    IN  NearestCount(RMul(RDiv(move, entry), Ratio(100, 1)), PctDigits)

\* ------------------------------------------------------------------------
\* C30: the pnl_percentage of a position is 'N/A' exactly when it has no
\* exit price (the exit price is not above 0); otherwise it is the relative
\* move from entry to exit price signed by the direction, and no zero
\* stands for a move that cannot be computed (one from no entry price)
\* ------------------------------------------------------------------------
C30_PnlPercentageOrNotApplicable ==
    \A i \in 1..Len(positions) :
        LET p == positions[i]
        IN  /\ (p.pnl_percentage = <<>>)
                  <=> ~(AveragePriceOf(ExitsOf(p)).n > 0)
            /\ AveragePriceOf(ExitsOf(p)).n > 0 =>
                  /\ AveragePriceOf(EntriesOf(p)).n > 0
                  /\ p.pnl_percentage = <<Fixed(RelativeMove(p), PctDigits)>>


\* The place of the input fill of history_id h in the input
InputIndex(h) == CHOOSE i \in 1..Len(fills) : fills[i].history_id = h

\* Fill f comes before fill g in the fills sorted stably by created_at
BeforeInSorted(f, g) ==
    \/ f.created_at < g.created_at
    \/ /\ f.created_at = g.created_at
       /\ InputIndex(f.history_id) < InputIndex(g.history_id)

\* ------------------------------------------------------------------------
\* C31: groupByOrder sorts the fills stably by created_at and emits the
\* trades in the order in which their groups first appear in the sorted
\* fills: within a trade the fills are in sorted order, those of equal
\* created_at in input order; the first fill of a trade comes before the
\* first fill of every later trade; first_fill_time never decreases along
\* the list
\* ------------------------------------------------------------------------
C31_StableSortFirstAppearance ==
    opc = "done" =>
        /\ \A t \in 1..Len(orderTrades) :
              \A a, b \in 1..Len(orderTrades[t].fills) :
                 a < b => BeforeInSorted(orderTrades[t].fills[a],
                                         orderTrades[t].fills[b])
        /\ \A s, t \in 1..Len(orderTrades) :
              s < t =>
                 /\ BeforeInSorted(orderTrades[s].fills[1], orderTrades[t].fills[1])
                 /\ orderTrades[s].first_fill_time <= orderTrades[t].first_fill_time

\* The first fill of the input is the latest and of one order with the
\* third; the second and the third have one created_at: the second fill's
\* trade is emitted first, then the order's, whose first fill is the third
C31_Witness ==
    /\ opc = "done"
    /\ Len(fills) = 3
    /\ Len(orderTrades) = 2
    /\ fills[1].created_at > fills[2].created_at
    /\ fills[2].created_at = fills[3].created_at
    /\ orderTrades[1].fills[1].history_id = 2
    /\ orderTrades[2].fills[1].history_id = 3
    /\ orderTrades[2].fill_count = 2
    /\ orderTrades[2].first_fill_time < orderTrades[2].last_fill_time


\* The cursor of the request under way, or just answered, is none for the
\* first page and the next_cursor of the page before for every later one
CursorFollowsLastPage ==
    fpc \in {"fetch", "text", "json", "sleep", "backoff", "page"} =>
        /\ pageCount = 0 => reqCursor = NoText
        /\ pageCount >= 1 =>
              /\ Len(served) >= pageCount
              /\ Truthy(served[pageCount].next_cursor)
              /\ reqCursor = served[pageCount].next_cursor

\* A page is requested only when every page before it has been answered
\* and processed, and an attempt that retries keeps the request's cursor
PagesInSequence ==
    /\ (fpc = "delay" /\ fpc' = "fetch") =>
          /\ Len(served) = pageCount
          /\ pageCount >= 1 => allData = Flatten([i \in 1..pageCount |-> served[i].data])
    /\ (fpc \in {"fetch", "text", "json", "sleep", "backoff"} /\ fpc' # "error")
          => reqCursor' = reqCursor

\* ------------------------------------------------------------------------
\* C32: the first page request of fetchAllPages carries no cursor, every
\* later one exactly the next_cursor the page before it returned; the
\* retries of a page carry the cursor of its first attempt; page N+1 is
\* requested only after the answer to page N has been received and
\* processed
\* ------------------------------------------------------------------------
C32_CursorOfEachRequest == []CursorFollowsLastPage /\ [][PagesInSequence]_vars

\* The third page is being requested again after a failed attempt, with the
\* cursor of the second page, which differs from the cursor of the first
C32_Witness ==
    /\ fpc = "fetch"
    /\ pageCount = 2
    /\ attempt > 1
    /\ reqCursor = served[2].next_cursor
    /\ served[1].next_cursor # served[2].next_cursor


\* How a run stands: it has completed, after a page without a cursor to
\* follow; or it has raised an error; or it is still requesting pages
RunEndsOneWay ==
    /\ returned.state \in {"pending", "resolved", "rejected"}
    /\ returned.state = "resolved" <=> fpc = "done"
    /\ returned.state = "rejected" <=> fpc = "error"
    /\ returned.state = "pending"
          <=> fpc \in {"loop", "window", "delay", "fetch", "text", "json",
                       "sleep", "backoff", "page"}
    /\ fpc = "done" =>
          /\ pageCount >= 1
          /\ Len(served) = pageCount
          /\ ~Truthy(Last(served).next_cursor)
          /\ error = <<>>
    /\ fpc = "error" => error # <<>>

\* A page that returns a cursor is followed by another request, however
\* many pages there were and whether or not the cursor is the one the
\* request carried
RunGoesOn ==
    /\ (fpc = "page" /\ response.success /\ Truthy(response.next_cursor)) =>
          /\ fpc' = "loop"
          /\ returned' = Pending
          /\ cursor' = response.next_cursor
    /\ fpc = "loop" => fpc' \in {"window", "delay"}
    /\ fpc = "delay" => fpc' = "fetch" /\ reqCursor' = CursorParam(cursor)

\* ------------------------------------------------------------------------
\* C33: a fetchAllPages run completes exactly when a page returns an absent
\* or empty cursor, or raises a terminal error, or goes on requesting
\* pages: a page with a cursor is always followed by a request, without a
\* cap on the pages and without a look at cursors seen before
\* ------------------------------------------------------------------------
C33_RunEndsOrGoesOn == []RunEndsOneWay /\ [][RunGoesOn]_vars

\* The server has returned the cursor of the second request again, and a
\* third request with the same cursor is under way
C33_Witness ==
    /\ fpc = "fetch"
    /\ pageCount = 2
    /\ returned = Pending
    /\ served[1].next_cursor = served[2].next_cursor
    /\ reqCursor = served[1].next_cursor


\* The cells of an array handed in: the array, its objects and, of a trade
\* that has fills, the array of these and its objects
CellsOf(h, a) ==
    {a} \cup {h[a][i] : i \in 1..Len(h[a])}
        \cup UNION {IF "fills" \in DOMAIN h[h[a][i]]
                    THEN {h[h[a][i]].fills}
                            \cup {h[h[h[a][i]].fills][j] :
                                     j \in 1..Len(h[h[h[a][i]].fills])}
                    ELSE {} : i \in 1..Len(h[a])}

\* A step of a stage leaves the array it was given as it was: its length,
\* its order, and every object of it with every field
InputsKept ==
    /\ opc = "start" => \A c \in CellsOf(heap, fillsAt) : heap'[c] = heap[c]
    /\ gpc \in {"start", "loop"}
          => \A c \in CellsOf(heap, tradesAt) : heap'[c] = heap[c]

\* ------------------------------------------------------------------------
\* C34: the stages only read their input: groupByOrder leaves the array of
\* fills, its order and the fields of every fill, unchanged; groupByPosition
\* leaves the array of trades and the fields of every trade unchanged
\* ------------------------------------------------------------------------
C34_StagesOnlyRead == [][InputsKept]_vars

\* Both stages have run on arrays that were not in the order of their sort
\* keys, which their results are
C34_Witness ==
    /\ opc = "done"
    /\ gpc = "done"
    /\ Len(fills) >= 2
    /\ fills[1].created_at > fills[2].created_at
    /\ orderTrades[1].first_fill_time < fills[1].created_at
    /\ Len(trades) >= 2
    /\ trades[1].first_fill_time > trades[2].first_fill_time
    /\ sorted # trades
    /\ sortedAt # tradesAt
    /\ heap[fillsAt] # heap[fillsAt + 1]
    /\ positions # <<>>


\* The side of the trade starts with 'open_' or with 'close_'
EntryOrExit(trade) ==
    \/ StartsWith(trade.side, <<"o", "p", "e", "n", "_">>)
    \/ StartsWith(trade.side, <<"c", "l", "o", "s", "e", "_">>)

\* The places the trade has in the trades lists of the returned positions
PlacesOf(trade) ==
    {pl \in (1..Len(positions)) \X (1..Len(trades)) :
        /\ pl[2] <= Len(positions[pl[1]].trades)
        /\ positions[pl[1]].trades[pl[2]] = trade}

\* Every entry and exit trade is in one returned position, once, and that
\* position is of its symbol; the other trades are in none; trade_count is
\* the length of trades
TradesPlacedOnce ==
    gpc = "done" =>
        /\ \A i \in 1..Len(trades) :
              IF EntryOrExit(trades[i])
              THEN /\ Cardinality(PlacesOf(trades[i])) = 1
                   /\ \A pl \in PlacesOf(trades[i]) :
                         positions[pl[1]].symbol = trades[i].symbol
              ELSE PlacesOf(trades[i]) = {}
        /\ \A j \in 1..Len(positions) :
              positions[j].trade_count = Len(positions[j].trades)

\* The step on a trade that is neither entry nor exit changes no
\* accumulator and emits nothing
OtherTradeIsSkipped ==
    (AtTrade /\ ~EntryOrExit(sorted[cur])) =>
        /\ positionsBySymbol' = positionsBySymbol
        /\ positions' = positions
        /\ cur' = cur + 1

\* ------------------------------------------------------------------------
\* C35: every trade whose side starts with 'open_' or 'close_' is in the
\* trades list of exactly one returned position, which has the trade's
\* symbol; a trade of another side is in no position and changes no
\* accumulator; the trade_count of every position is the length of its
\* trades list
\* ------------------------------------------------------------------------
C35_EveryTradeInOnePosition == []TradesPlacedOnce /\ [][OtherTradeIsSkipped]_vars

\* An exit and a trade of a second symbol have been placed in two
\* positions, next to a trade that is neither entry nor exit
C35_Witness ==
    /\ gpc = "done"
    /\ Len(trades) = 3
    /\ Len(positions) = 2
    /\ \E i \in 1..3 : ~EntryOrExit(trades[i])
    /\ \E i \in 1..3 : trades[i].side \in {CloseLong, CloseShort}
    /\ positions[1].symbol # positions[2].symbol


\* ------------------------------------------------------------------------
\* The sleeps of an exhausted page request
\* ------------------------------------------------------------------------
\* The sleeps made during the attempts of the page request under way
RECURSIVE SleepsOf(_)
SleepsOf(log) ==
    IF log = <<>> THEN <<>> ELSE log[1].waits \o SleepsOf(Tail(log))

\* The page request has given up at its last attempt
Exhausted(class) ==
    /\ fpc = "error"
    /\ pageLog # <<>>
    /\ Last(pageLog).attempt = 3
    /\ Last(pageLog).class = class

C36_WitnessNetwork ==
    /\ Exhausted("network")
    /\ \A i \in 1..3 : pageLog[i].class = "network"
    /\ SleepsOf(pageLog) = <<1000, 2000>>


\* ------------------------------------------------------------------------
\* Retries and the rate limiter
\* ------------------------------------------------------------------------
\* A retry is sent when the sleep before it ends, and touches nothing of the
\* limiter
AttemptLeavesLimiter ==
    (Len(sent') = Len(sent) + 1 /\ attempt' > 1) =>
        /\ fpc \in {"sleep", "backoff"}
        /\ Last(sent') = clock'
        /\ requestTimestamps' = requestTimestamps
        /\ callCount' = callCount
        /\ rateLimiterCalls' = rateLimiterCalls

\* After a retry is decided the next attempt is sent, with no waitIfNeeded
\* before it
RetryIsNotPaced ==
    attempt' = attempt + 1 =>
        /\ fpc' = "fetch"
        /\ Len(sent') = Len(sent) + 1
        /\ callCount' = callCount

\* A timestamp is pushed only by waitIfNeeded, before the first attempt of
\* a page
PushedByPageOnly ==
    Len(requestTimestamps') > Len(requestTimestamps) =>
        /\ fpc = "delay"
        /\ attempt' = 1
        /\ rateLimiterCalls' = rateLimiterCalls + 1
        /\ requestTimestamps' = Append(requestTimestamps, Last(sent'))

\* C37: a retry does not pass through the rate limiter: the limiter is
\* called, and pushes a timestamp, once per page requested and not once per
\* HTTP attempt; a retried attempt is neither delayed by waitIfNeeded nor
\* counted in the 60-second window
C37_RetriesBypassLimiter ==
    [][AttemptLeavesLimiter /\ RetryIsNotPaced /\ PushedByPageOnly]_vars

\* The third attempt of the first page of the run is under way: three
\* requests against one timestamp, the later ones after the timestamp
C37_Witness ==
    /\ callCount = 1
    /\ attempt = 3
    /\ fpc = "fetch"
    /\ Len(sent) = Len(requestTimestamps) + 2
    /\ Last(sent) > Last(requestTimestamps)


\* ------------------------------------------------------------------------
\* The times of a position
\* ------------------------------------------------------------------------
\* Every trade groupByOrder returned begins no later than it ends
TradesBeginBeforeEnd ==
    \A i \in 1..Len(orderTrades) :
        orderTrades[i].first_fill_time <= orderTrades[i].last_fill_time

\* C38: on the trades groupByOrder returns, every position groupByPosition
\* emits has opened_at <= closed_at, and its duration_hours is not negative
C38_OpenedBeforeClosed ==
    /\ TradesBeginBeforeEnd
    /\ \A i \in 1..Len(positions) :
          /\ positions[i].opened_at <= positions[i].closed_at
          /\ ~Less(positions[i].duration_hours, Number(0))

\* An entry filled at two times and left open by an exit made between them:
\* the position ends at the exit, before the entry's last fill
C38_Witness ==
    /\ gpc = "done"
    /\ Len(positions) = 1
    /\ positions[1].status = "open"
    /\ Len(positions[1].trades) = 2
    /\ positions[1].trades[1].first_fill_time < positions[1].trades[1].last_fill_time
    /\ positions[1].closed_at < positions[1].trades[1].last_fill_time

\* A position that was open for some time
C38_WitnessLasting ==
    /\ gpc = "done"
    /\ \E i \in 1..Len(positions) :
          positions[i].opened_at < positions[i].closed_at


\* ------------------------------------------------------------------------
\* The identity of a position
\* ------------------------------------------------------------------------
\* C39: within one groupByPosition result the position_id values are
\* pairwise distinct: no two positions share symbol, direction and opened_at
C39_PositionIdsDistinct ==
    gpc = "done" =>
        \A i, j \in 1..Len(positions) :
            positions[i].position_id = positions[j].position_id => i = j


\* ------------------------------------------------------------------------
\* When a position is closed
\* ------------------------------------------------------------------------
ClosedCount(ps) == Len(SelectSeq(ps, LAMBDA p : p.status = "closed"))

\* The place of a trade in the order of processing
SortedIndex(trade) == CHOOSE i \in 1..Len(sorted) : sorted[i] = trade

\* A closed position is pushed by the step of an exit trade, the one that
\* brought the size below the epsilon: it is the last trade of the position
\* and gives closed_at
ClosedByExitStep ==
    ClosedCount(positions') > ClosedCount(positions) =>
        /\ AtTrade
        /\ IsClose(sorted[cur].side)
        /\ Len(positions') = Len(positions) + 1
        /\ Last(positions').status = "closed"
        /\ Last(positions').closed_at = sorted[cur].last_fill_time
        /\ Last(positions').trades # <<>>
        /\ Last(Last(positions').trades) = sorted[cur]
        /\ Len(emissions') = Len(emissions) + 1
        /\ Less(Last(emissions').size, EPSILON)
        /\ Less(Minus(Number(0), EPSILON), Last(emissions').size)

\* The trades of a closed position: entries, then exits, each in the order
\* of processing, with at least one exit
EntriesThenExits(p) ==
    \E n \in 0..(Len(p.trades) - 1) :
        /\ \A k \in 1..Len(p.trades) :
              IF k <= n THEN p.trades[k].side \in {OpenLong, OpenShort}
                        ELSE p.trades[k].side \in {CloseLong, CloseShort}
        /\ \A k, l \in 1..Len(p.trades) :
              (k < l /\ (l <= n \/ k > n)) =>
                  SortedIndex(p.trades[k]) < SortedIndex(p.trades[l])

ClosedPositionsWellFormed ==
    gpc \in {"loop", "done"} =>
        \A i \in 1..Len(positions) :
            positions[i].status = "closed" => EntriesThenExits(positions[i])

\* C40: a position is emitted closed only while an exit trade is processed:
\* a closed position holds at least one exit, its closed_at is the last-fill
\* time of the exit that brought the size below 0.0001, and its trades are
\* its entries in processing order followed by its exits in processing order
C40_ClosedOnlyByExit ==
    []ClosedPositionsWellFormed /\ [][ClosedByExitStep]_vars

\* A position of three trades or more, an entry first, closed by its last
\* exit
C40_Witness ==
    /\ gpc = "done"
    /\ \E i \in 1..Len(positions) :
          /\ positions[i].status = "closed"
          /\ Len(positions[i].trades) >= 3
          /\ positions[i].trades[1].side = OpenLong
          /\ Last(positions[i].trades).side = CloseLong
          /\ positions[i].closed_at = Last(positions[i].trades).last_fill_time
          /\ positions[i].closed_at > Last(positions[i].trades).first_fill_time

====
